---------------------------- MODULE Spec2Model ----------------------------
(***************************************************************************)
(* Model of the diagram rasterization toolkit (src/generate_diagrams.py)   *)
(* and of the document assembler's figure embedding                        *)
(* (src/generate_arch_doc.py).                                             *)
(*                                                                         *)
(* The toolkit's primitives are stateless apart from the canvas they draw  *)
(* on.  The canvas is modelled by the ordered log of draw calls issued on  *)
(* its ImageDraw handle (painter's algorithm: a later call overpaints an   *)
(* earlier one).  A primitive call is one action; `call' records the       *)
(* primitive and its arguments, `ret' what it returned or raised.          *)
(*                                                                         *)
(* The two scripts (diagram generator, document assembler) are modelled as *)
(* two sequential processes over a shared diagrams directory `fs'.  The    *)
(* generate_* functions are also traced call by call, each on its own      *)
(* image (`task', `disk'), in the __main__ order and in any order.         *)
(***************************************************************************)
EXTENDS Integers, Sequences, FiniteSets, TLC

VARIABLES
    canvas,   \* draw calls issued on the canvas so far, in order
    call,     \* the toolkit primitive last invoked, with its arguments
    ret,      \* its result: [ok |-> TRUE, val |-> v] or [ok |-> FALSE, err |-> e]
    fs,       \* names of the files present in DIAGRAMS_DIR
    gpc,      \* generator script: the generate_* function to run next
    saved,    \* files the generator run has written, in order
    saveErr,  \* the file whose save raised, "" when none did
    dpc,      \* assembler script: index of the next step of main()
    doc,      \* the document body: paragraphs added so far, in order
    fontFiles,\* state of each candidate font file on disk
    fontIO,   \* file-system and font-loader calls get_font has made, in order
    task,     \* per generate_* function: its position and its own canvas
    disk      \* per output path: absent, not writable, or the image saved

vars == <<canvas, call, ret, fs, gpc, saved, saveErr, dpc, doc, fontFiles, fontIO,
          task, disk>>

taskVars == <<task, disk>>

fontVars == <<fontFiles, fontIO>>
toolkitVars == <<canvas, call, ret, fontVars>>
pipelineVars == <<fs, gpc, saved, saveErr, dpc, doc>>

(***************************************************************************)
(* Arithmetic helpers.                                                     *)
(***************************************************************************)
Abs(n) == IF n < 0 THEN -n ELSE n

Min(a, b) == IF a <= b THEN a ELSE b

Max(a, b) == IF a >= b THEN a ELSE b

\* Python's int() of the real number n/d (d > 0): truncation toward zero.
Trunc(n, d) == IF n >= 0 THEN n \div d ELSE -((-n) \div d)

RECURSIVE Gcd(_, _)
Gcd(a, b) == IF b = 0 THEN a ELSE Gcd(b, a % b)

NoCall == [fn |-> "none"]
NoRet == [ok |-> TRUE, val |-> <<>>]
Returned(v) == [ok |-> TRUE, val |-> v]
Raised(e) == [ok |-> FALSE, err |-> e]

(***************************************************************************)
(* Colour helpers.  A string is a sequence of one-character strings.       *)
(***************************************************************************)
HexDigitChars ==
    <<"0", "1", "2", "3", "4", "5", "6", "7", "8", "9",
      "A", "B", "C", "D", "E", "F", "a", "b", "c", "d", "e", "f">>

IsHexDigit(ch) == \E i \in 1..Len(HexDigitChars) : HexDigitChars[i] = ch

HexVal(ch) ==
    LET i == CHOOSE k \in 1..Len(HexDigitChars) : HexDigitChars[k] = ch
    IN  IF i <= 16 THEN i - 1 ELSE i - 7

IsSpaceChar(ch) == ch \in {" ", "\t", "\n"}

\* str.lstrip('#'): every leading '#' is removed, not only one.
RECURSIVE LStripHash(_)
LStripHash(h) ==
    IF h # <<>> /\ Head(h) = "#" THEN LStripHash(Tail(h)) ELSE h

\* Python's h[i:j] (0-based, end exclusive), clipped to the string.
Slice(h, i, j) == SubSeq(h, i + 1, Min(j, Len(h)))

RECURSIVE StripSpace(_)
StripSpace(s) ==
    IF s = <<>> THEN s
    ELSE IF IsSpaceChar(Head(s)) THEN StripSpace(Tail(s))
    ELSE IF IsSpaceChar(s[Len(s)]) THEN StripSpace(SubSeq(s, 1, Len(s) - 1))
    ELSE s

\* Python's int(s, 16) on a slice of at most two characters: surrounding
\* white space and one leading sign are accepted, then one or two hex
\* digits must remain ("0x" alone, "_" and the empty string are errors).
ParseInt16(s) ==
    LET t == StripSpace(s)
        signed == t # <<>> /\ Head(t) \in {"+", "-"}
        digits == IF signed THEN Tail(t) ELSE t
        sign == IF signed /\ Head(t) = "-" THEN -1 ELSE 1
    IN  IF digits = <<>> \/ \E k \in 1..Len(digits) : ~IsHexDigit(digits[k])
        THEN Raised("ValueError")
        ELSE IF Len(digits) = 1
        THEN Returned(sign * HexVal(digits[1]))
        ELSE Returned(sign * (16 * HexVal(digits[1]) + HexVal(digits[2])))

hex_to_rgb(h) ==
    LET s == LStripHash(h)
        ch == [k \in 1..3 |-> ParseInt16(Slice(s, 2 * (k - 1), 2 * k))]
    IN  IF \E k \in 1..3 : ~ch[k].ok
        THEN Raised("ValueError")
        ELSE Returned([k \in 1..3 |-> ch[k].val])

\* A factor is held in hundredths: f100 stands for the literal f100/100.
\* int(c * factor) in binary64.  For the factors of Factors100 the product
\* is the exact one except where the literal is not representable and the
\* exact product c*f100/100 is an integer: there binary64 falls just short
\* of it for the channel values listed, and int() yields one less.
Binary64Short ==
    {<<90, 70>>, <<170, 70>>, <<180, 70>>,
     <<100, 115>>, <<180, 115>>, <<200, 115>>, <<220, 115>>}

IntOfProduct(c, f100) ==
    Trunc(c * f100, 100) - (IF <<c, f100>> \in Binary64Short THEN 1 ELSE 0)

darken_ignoring_factor(rgb, f100) == [k \in 1..3 |-> IntOfProduct(rgb[k], 70)]

darken(rgb, f100) == [k \in 1..3 |-> IntOfProduct(rgb[k], f100)]

lighten_low_clamp(rgb, f100) == [k \in 1..3 |-> Min(250, IntOfProduct(rgb[k], f100))]

lighten(rgb, f100) == [k \in 1..3 |-> Min(255, IntOfProduct(rgb[k], f100))]

(***************************************************************************)
(* Inputs of the colour helpers.                                           *)
(***************************************************************************)
MaxHexLen == 7

HexAlphabet == {"#", "F", "G", "+"}

RECURSIVE StringsUpTo(_)
StringsUpTo(n) ==
    IF n = 0 THEN {<<>>}
    ELSE LET shorter == StringsUpTo(n - 1)
         IN  shorter \cup {Append(s, ch) : s \in {t \in shorter : Len(t) = n - 1},
                                           ch \in HexAlphabet}

\* Colour literals of the composition scripts, and the malformed ones the
\* colour parser is documented to reject.
HexLiterals ==
    {<<"#", "2", "5", "6", "3", "E", "B">>,
     <<"#", "1", "D", "4", "E", "D", "8">>,
     <<"#", "F", "F", "F">>,
     <<"#", "A", "A", "B", "B", "C", "C", "D", "D">>,
     <<"#", "#", "A", "A", "B", "B", "C", "C">>}

HexInputs == StringsUpTo(MaxHexLen) \cup HexLiterals

MaxChannel == 255

\* Every channel value occurs in every position.
Colours == {<<c, (c + 85) % 256, (c + 170) % 256>> : c \in 0..MaxChannel}

\* The factors the scripts pass (0.6, 0.7, 1.15, 1.2, 1.3, 1.6), the
\* identity, and factors exactly representable in binary64.
Factors100 == {-50, 0, 25, 50, 60, 70, 75, 100, 115, 120, 125, 130, 150, 160, 200}

\* No font has been requested and no font file examined.
FontIdle == fontFiles = <<>> /\ fontIO = <<>>

ToolkitIdle ==
    /\ canvas = <<>>
    /\ call = NoCall
    /\ ret = NoRet
    /\ FontIdle

\* No generate_* function is being traced.
TaskIdle == task = <<>> /\ disk = <<>>

PipelineIdle ==
    /\ TaskIdle
    /\ fs = {}
    /\ gpc = "idle"
    /\ saved = <<>>
    /\ saveErr = ""
    /\ dpc = 0
    /\ doc = <<>>

(***************************************************************************)
(* Colour helper calls.                                                    *)
(***************************************************************************)
HexToRgb ==
    /\ call = NoCall
    /\ \E h \in HexInputs :
        /\ call' = [fn |-> "hex_to_rgb", h |-> h]
        /\ ret' = hex_to_rgb(h)
    /\ UNCHANGED <<canvas, fontVars, pipelineVars, taskVars>>

Darken ==
    /\ call = NoCall
    /\ \E rgb \in Colours, f100 \in Factors100 :
        /\ call' = [fn |-> "darken", rgb |-> rgb, f100 |-> f100]
        /\ ret' = Returned(darken(rgb, f100))
    /\ UNCHANGED <<canvas, fontVars, pipelineVars, taskVars>>

Lighten ==
    /\ call = NoCall
    /\ \E rgb \in Colours, f100 \in Factors100 :
        /\ call' = [fn |-> "lighten", rgb |-> rgb, f100 |-> f100]
        /\ ret' = Returned(lighten(rgb, f100))
    /\ UNCHANGED <<canvas, fontVars, pipelineVars, taskVars>>

InitColour == ToolkitIdle /\ PipelineIdle

NextColour == HexToRgb \/ Darken \/ Lighten

SpecColour == InitColour /\ [][NextColour]_vars

(***************************************************************************)
(* Arrow renderer.  Coordinates computed in floating point are modelled as *)
(* exact rationals <<n, d>> in lowest terms with d > 0; the inputs are the *)
(* integer points whose distance is an integer, for which math.sqrt is     *)
(* exact.                                                                  *)
(***************************************************************************)
QNorm(n, d) ==
    LET g == Gcd(Abs(n), Abs(d))
        sgn == IF d < 0 THEN -1 ELSE 1
    IN  <<sgn * (n \div g), sgn * (d \div g)>>

QInt(n) == <<n, 1>>
QAdd(a, b) == QNorm(a[1] * b[2] + b[1] * a[2], a[2] * b[2])
QNeg(a) == <<-a[1], a[2]>>
QSub(a, b) == QAdd(a, QNeg(b))
QMul(a, b) == QNorm(a[1] * b[1], a[2] * b[2])
QDiv(a, b) == QNorm(a[1] * b[2], a[2] * b[1])
QAbs(a) == <<Abs(a[1]), a[2]>>
QLess(a, b) == a[1] * b[2] < b[1] * a[2]

IsSquare(n) == \E r \in 0..n : r * r = n

\* math.sqrt on a perfect square.
Sqrt(n) == CHOOSE r \in 0..n : r * r = n

\* The literal 0.4 of the arrowhead's half width.
HeadRatio == <<2, 5>>

\* Lines 82-86 with the perpendicular not negated: (udy, udx).
arrow_head_unnegated_perpendicular(start, end, head_size) ==
    LET dx == end[1] - start[1]
        dy == end[2] - start[2]
        length == QInt(Sqrt(dx * dx + dy * dy))
        udx == QDiv(QInt(dx), length)
        udy == QDiv(QInt(dy), length)
        px == udy
        py == udx
        hs == QInt(head_size)
        tip == <<QInt(end[1]), QInt(end[2])>>
        left == <<QAdd(QSub(tip[1], QMul(hs, udx)), QMul(QMul(hs, HeadRatio), px)),
                  QAdd(QSub(tip[2], QMul(hs, udy)), QMul(QMul(hs, HeadRatio), py))>>
        right == <<QSub(QSub(tip[1], QMul(hs, udx)), QMul(QMul(hs, HeadRatio), px)),
                   QSub(QSub(tip[2], QMul(hs, udy)), QMul(QMul(hs, HeadRatio), py))>>
    IN  <<tip, left, right>>

\* Lines 82-86 with a half width of 0.5 instead of 0.4.
arrow_head_half_width(start, end, head_size) ==
    LET dx == end[1] - start[1]
        dy == end[2] - start[2]
        length == QInt(Sqrt(dx * dx + dy * dy))
        udx == QDiv(QInt(dx), length)
        udy == QDiv(QInt(dy), length)
        px == QNeg(udy)
        py == udx
        hs == QInt(head_size)
        tip == <<QInt(end[1]), QInt(end[2])>>
        left == <<QAdd(QSub(tip[1], QMul(hs, udx)), QMul(QMul(hs, <<1, 2>>), px)),
                  QAdd(QSub(tip[2], QMul(hs, udy)), QMul(QMul(hs, <<1, 2>>), py))>>
        right == <<QSub(QSub(tip[1], QMul(hs, udx)), QMul(QMul(hs, <<1, 2>>), px)),
                   QSub(QSub(tip[2], QMul(hs, udy)), QMul(QMul(hs, <<1, 2>>), py))>>
    IN  <<tip, left, right>>

\* The arrowhead polygon [tip, left, right] of a non-degenerate arrow.
arrow_head(start, end, head_size) ==
    LET dx == end[1] - start[1]
        dy == end[2] - start[2]
        length == QInt(Sqrt(dx * dx + dy * dy))
        udx == QDiv(QInt(dx), length)
        udy == QDiv(QInt(dy), length)
        px == QNeg(udy)
        py == udx
        hs == QInt(head_size)
        tip == <<QInt(end[1]), QInt(end[2])>>
        left == <<QAdd(QSub(tip[1], QMul(hs, udx)), QMul(QMul(hs, HeadRatio), px)),
                  QAdd(QSub(tip[2], QMul(hs, udy)), QMul(QMul(hs, HeadRatio), py))>>
        right == <<QSub(QSub(tip[1], QMul(hs, udx)), QMul(QMul(hs, HeadRatio), px)),
                   QSub(QSub(tip[2], QMul(hs, udy)), QMul(QMul(hs, HeadRatio), py))>>
    IN  <<tip, left, right>>

LineOp(pts, fill, width) ==
    [op |-> "line", xy |-> pts, fill |-> fill, width |-> width]

PolygonOp(pts, fill, outline) ==
    [op |-> "polygon", xy |-> pts, fill |-> fill, outline |-> outline]

\* draw_arrow with the head drawn before the shaft.
draw_arrow_head_first(cv, start, end, color, width, head_size) ==
    LET dx == end[1] - start[1]
        dy == end[2] - start[2]
        shaft == LineOp(<<start, end>>, color, width)
    IN  IF dx * dx + dy * dy = 0
        THEN Append(cv, shaft)
        ELSE cv \o <<PolygonOp(arrow_head(start, end, head_size), color, "None"), shaft>>

\* The canvas after draw_arrow: the shaft is drawn before the length test.
draw_arrow(cv, start, end, color, width, head_size) ==
    LET shaft == Append(cv, LineOp(<<start, end>>, color, width))
        dx == end[1] - start[1]
        dy == end[2] - start[2]
    IN  IF dx * dx + dy * dy = 0
        THEN shaft
        ELSE Append(shaft, PolygonOp(arrow_head(start, end, head_size), color, "None"))

(***************************************************************************)
(* Inputs of the arrow renderer.                                           *)
(***************************************************************************)
MaxCoord == 1
MaxDelta == 4

ArrowStarts == ((0..MaxCoord) \X (0..MaxCoord)) \cup {<<0, 50>>}

ArrowVectors ==
    {v \in (-MaxDelta..MaxDelta) \X (-MaxDelta..MaxDelta) :
        IsSquare(v[1] * v[1] + v[2] * v[2])} \cup {<<100, 0>>}

\* head_size: the default and the values the scripts pass.
HeadSizes == {8, 12, 14}

\* width: the default and the values the scripts pass.
ArrowWidths == {2, 3, 4}

ArrowColours == {"#1B3A5C", "#2563EB"}

\* What the canvas may hold when a primitive is called: nothing yet, or
\* an earlier shape.
PriorCanvases ==
    {<<>>,
     <<[op |-> "rounded_rectangle", xy |-> <<0, 0, 100, 50>>, radius |-> 10,
        fill |-> "#2563EB", outline |-> "#1D4ED8", width |-> 2]>>}

DrawArrow ==
    /\ call = NoCall
    /\ \E start \in ArrowStarts, v \in ArrowVectors, color \in ArrowColours,
          width \in ArrowWidths, head_size \in HeadSizes :
        LET end == <<start[1] + v[1], start[2] + v[2]>>
        IN  /\ call' = [fn |-> "draw_arrow", start |-> start, end |-> end,
                        color |-> color, width |-> width,
                        head_size |-> head_size, before |-> canvas]
            /\ canvas' = draw_arrow(canvas, start, end, color, width, head_size)
            /\ ret' = Returned("None")
    /\ UNCHANGED <<fontVars, pipelineVars, taskVars>>

InitArrow ==
    /\ canvas \in PriorCanvases
    /\ call = NoCall
    /\ ret = NoRet
    /\ FontIdle
    /\ PipelineIdle

NextArrow == DrawArrow

SpecArrow == InitArrow /\ [][NextArrow]_vars

(***************************************************************************)
(* Gradient rounded rectangle.  For heights up to 9 rows and channels in   *)
(* [0,255] the binary64 value of top + (bottom - top) * ratio truncates to *)
(* the same integer as the exact rational, which is what is computed here. *)
(***************************************************************************)
\* gradient_channel with the ratio measured from the bottom row.
gradient_channel_from_bottom(top, bottom, y, y0, y1) ==
    LET den == Max(1, y1 - y0)
    IN  Trunc(top * den + (bottom - top) * (y1 - y), den)

\* One channel of scanline y: int(top + (bottom - top) * ratio) with
\* ratio = (y - y0) / max(1, y1 - y0).
gradient_channel(top, bottom, y, y0, y1) ==
    LET den == Max(1, y1 - y0)
    IN  Trunc(top * den + (bottom - top) * (y - y0), den)

gradient_row(color_top, color_bottom, y, y0, y1) ==
    [k \in 1..3 |-> gradient_channel(color_top[k], color_bottom[k], y, y0, y1)]

RoundedRectOp(bbox, radius, fill, outline, width) ==
    [op |-> "rounded_rectangle", xy |-> bbox, radius |-> radius,
     fill |-> fill, outline |-> outline, width |-> width]

\* The scanlines of rows y..y1-1, in the order range(y0, y1) yields them.
RECURSIVE gradient_lines(_, _, _, _, _, _)
gradient_lines(bbox, radius, color_top, color_bottom, y, acc) ==
    IF y >= bbox[4] THEN acc
    ELSE gradient_lines(bbox, radius, color_top, color_bottom, y + 1,
            Append(acc, LineOp(<<<<bbox[1] + radius, y>>, <<bbox[3] - radius, y>>>>,
                               gradient_row(color_top, color_bottom, y, bbox[2], bbox[4]),
                               0)))

\* `outline or darken(color_top, factor)'.
OutlineOr(outline, color_top, f100) ==
    IF outline = "None" THEN darken(color_top, f100) ELSE outline

\* The canvas after draw_gradient_rect: the scanlines, then the two
\* outline strokes (the mask of lines 58-60 is drawn on an image of its
\* own and never used).
draw_gradient_rect(cv, bbox, radius, color_top, color_bottom, outline, width) ==
    LET rows == gradient_lines(bbox, radius, color_top, color_bottom, bbox[2], cv)
        first == Append(rows, RoundedRectOp(bbox, radius, "None",
                                            OutlineOr(outline, color_top, 70), width))
    IN  Append(first, RoundedRectOp(bbox, radius, "None",
                                    OutlineOr(outline, color_top, 60), width))

(***************************************************************************)
(* Inputs of the gradient rectangle.                                       *)
(***************************************************************************)
MaxHeight == 8

GradBoxes ==
    {<<0, y0, x1, y0 + h>> : y0 \in {0, 5}, x1 \in {3, 40}, h \in -1..MaxHeight}

GradRadii == {0, 2, 8}

GradColours ==
    {<<0, 0, 0>>, <<255, 255, 255>>, <<37, 99, 235>>, <<29, 78, 216>>,
     <<250, 250, 252>>, <<90, 180, 100>>}

GradOutlines == {"None", "#1D4ED8"}

DrawGradientRect ==
    /\ call = NoCall
    /\ \E bbox \in GradBoxes, radius \in GradRadii, color_top \in GradColours,
          color_bottom \in GradColours, outline \in GradOutlines :
        /\ call' = [fn |-> "draw_gradient_rect", bbox |-> bbox, radius |-> radius,
                    color_top |-> color_top, color_bottom |-> color_bottom,
                    outline |-> outline, width |-> 2, before |-> canvas]
        /\ canvas' = draw_gradient_rect(canvas, bbox, radius, color_top,
                                        color_bottom, outline, 2)
        /\ ret' = Returned("None")
    /\ UNCHANGED <<fontVars, pipelineVars, taskVars>>

InitGradient ==
    /\ canvas \in PriorCanvases
    /\ call = NoCall
    /\ ret = NoRet
    /\ FontIdle
    /\ PipelineIdle

NextGradient == DrawGradientRect

SpecGradient == InitGradient /\ [][NextGradient]_vars

(***************************************************************************)
(* The diagram generator script: four generate_* functions run in order,   *)
(* each composing its own canvas and saving one PNG.  Nothing catches an   *)
(* exception, so a save that raises ends the script.                       *)
(***************************************************************************)
GeneratorOrder ==
    <<"generate_mindmap", "generate_workflow", "generate_image_pipeline",
      "generate_lifecycle_combined">>

OutFile(g) ==
    CASE g = "generate_mindmap" -> "01_mindmap_overview.png"
      [] g = "generate_workflow" -> "03_workflow_diagram.png"
      [] g = "generate_image_pipeline" -> "07_image_pipeline.png"
      [] g = "generate_lifecycle_combined" -> "06_lifecycle_combined.png"

GeneratedFiles == {OutFile(GeneratorOrder[i]) : i \in 1..Len(GeneratorOrder)}

\* What follows generator g in the __main__ block.
AfterGenerator(g) ==
    LET i == CHOOSE k \in 1..Len(GeneratorOrder) : GeneratorOrder[k] = g
    IN  IF i < Len(GeneratorOrder) THEN GeneratorOrder[i + 1] ELSE "done"

\* The end of a generate_* function: img.save either writes the file or
\* raises, and the exception propagates out of __main__.
SaveAndContinue(g) ==
    /\ \E saveOk \in BOOLEAN :
        IF saveOk
        THEN /\ fs' = fs \cup {OutFile(g)}
             /\ saved' = Append(saved, OutFile(g))
             /\ gpc' = AfterGenerator(g)
             /\ UNCHANGED saveErr
        ELSE /\ saveErr' = OutFile(g)
             /\ gpc' = "crashed"
             /\ UNCHANGED <<fs, saved>>
    /\ UNCHANGED <<dpc, doc, toolkitVars, taskVars>>

GenerateMindmap ==
    /\ gpc = "generate_mindmap"
    /\ SaveAndContinue("generate_mindmap")

GenerateWorkflow ==
    /\ gpc = "generate_workflow"
    /\ SaveAndContinue("generate_workflow")

GenerateImagePipeline ==
    /\ gpc = "generate_image_pipeline"
    /\ SaveAndContinue("generate_image_pipeline")

GenerateLifecycleCombined ==
    /\ gpc = "generate_lifecycle_combined"
    /\ SaveAndContinue("generate_lifecycle_combined")

(***************************************************************************)
(* The document assembler script.  The body of the document is the         *)
(* sequence of blocks added so far; the headings, paragraphs, bullets and  *)
(* tables a section function adds between two figures are one "content"    *)
(* block.                                                                  *)
(***************************************************************************)
Content(section, part) == [kind |-> "content", of |-> section, part |-> part]

PageBreak == [kind |-> "page_break"]

Placeholder(caption) == <<"[Diagram: ", caption, " - image not found]">>

\* add_diagram with the not-found branch adding nothing at all.
add_diagram_dropping_missing(d, files, image_path, caption) ==
    IF image_path \in files
    THEN d \o <<[kind |-> "figure", picture |-> image_path, text |-> <<>>],
                [kind |-> "caption", text |-> caption]>>
    ELSE d

\* The document after add_diagram: a centred paragraph whose run holds the
\* picture, or the placeholder text when os.path.exists fails, then the
\* caption paragraph.
add_diagram(d, files, image_path, caption) ==
    LET run == IF image_path \in files
               THEN [kind |-> "figure", picture |-> image_path, text |-> <<>>]
               ELSE [kind |-> "figure", picture |-> "None", text |-> Placeholder(caption)]
    IN  d \o <<run, [kind |-> "caption", text |-> caption]>>

\* The figures of the document, in the order main() embeds them (the
\* captions' dashes and arrows are written in ASCII).
Figures ==
    <<[file |-> "01_mindmap_overview.png",
       caption |-> "Figure 1: Healthy Fleet Maintenance - Four-Pillar Problem Space Overview"],
      [file |-> "04_npd_platform.png",
       caption |-> "Figure 2: NPD as a Platform - Multi-Team Contribution Model"],
      [file |-> "03_workflow_diagram.png",
       caption |-> "Figure 3: Detection -> Enforcement -> Recovery Workflow"],
      [file |-> "02_state_machine.png",
       caption |-> "Figure 4: Node Lifecycle State Machine"],
      [file |-> "05_buffer_strategy.png",
       caption |-> "Figure 5: Buffer Pool Strategy & Fleet Availability Model"]>>

EmbeddedFiles == {Figures[i].file : i \in 1..Len(Figures)}

\* The section functions main() calls, in order; doc.save follows.
MainSteps ==
    <<"add_cover_page", "add_toc_placeholder", "add_executive_summary",
      "add_feature_description", "add_goals_objectives", "add_scope",
      "add_architecture_design", "add_infrastructure_callouts", "add_test_plan",
      "add_enterprise_promises", "add_deployment_observability",
      "add_customer_impact", "add_appendix_diagrams", "add_appendix_glossary">>

StepIs(name) == dpc \in 1..Len(MainSteps) /\ MainSteps[dpc] = name

AddFigure(d, files, i) == add_diagram(d, files, Figures[i].file, Figures[i].caption)

AddExecutiveSummary ==
    /\ StepIs("add_executive_summary")
    /\ doc' = Append(AddFigure(Append(doc, Content("add_executive_summary", 1)), fs, 1),
                     PageBreak)
    /\ dpc' = dpc + 1
    /\ UNCHANGED <<fs, gpc, saved, saveErr, toolkitVars, taskVars>>

AddArchitectureDesign ==
    /\ StepIs("add_architecture_design")
    /\ LET s == "add_architecture_design"
           d1 == AddFigure(Append(doc, Content(s, 1)), fs, 2)
           d2 == AddFigure(d1 \o <<Content(s, 2), PageBreak, Content(s, 3)>>, fs, 3)
           d3 == AddFigure(d2 \o <<Content(s, 4), PageBreak, Content(s, 5)>>, fs, 4)
           d4 == AddFigure(d3 \o <<Content(s, 6), PageBreak, Content(s, 7)>>, fs, 5)
       IN  doc' = d4 \o <<Content(s, 8), PageBreak>>
    /\ dpc' = dpc + 1
    /\ UNCHANGED <<fs, gpc, saved, saveErr, toolkitVars, taskVars>>

\* A section function that embeds no figure.
AddPlainSection ==
    /\ dpc \in 1..Len(MainSteps)
    /\ MainSteps[dpc] \notin {"add_executive_summary", "add_architecture_design"}
    /\ doc' = Append(doc, Content(MainSteps[dpc], 1))
    /\ dpc' = dpc + 1
    /\ UNCHANGED <<fs, gpc, saved, saveErr, toolkitVars, taskVars>>

\* doc.save(OUTPUT_FILE), the last step of main().
SaveDocument ==
    /\ dpc = Len(MainSteps) + 1
    /\ dpc' = dpc + 1
    /\ UNCHANGED <<doc, fs, gpc, saved, saveErr, toolkitVars, taskVars>>

AssemblerStep ==
    AddExecutiveSummary \/ AddArchitectureDesign \/ AddPlainSection \/ SaveDocument

AssemblerDone == dpc = Len(MainSteps) + 2

\* Every NN_name.png either script names.
DiagramFiles == GeneratedFiles \cup EmbeddedFiles

\* Both scripts are started on a diagrams directory left by earlier runs.
InitPipeline ==
    /\ fs \in SUBSET DiagramFiles
    /\ gpc = GeneratorOrder[1]
    /\ saved = <<>>
    /\ saveErr = ""
    /\ dpc = 1
    /\ doc = <<>>
    /\ ToolkitIdle
    /\ TaskIdle

NextPipeline ==
    \/ GenerateMindmap
    \/ GenerateWorkflow
    \/ GenerateImagePipeline
    \/ GenerateLifecycleCombined
    \/ AddExecutiveSummary
    \/ AddArchitectureDesign
    \/ AddPlainSection
    \/ SaveDocument

SpecPipeline == InitPipeline /\ [][NextPipeline]_vars

(***************************************************************************)
(* Font resolver.  A candidate font file is absent, a loadable TrueType    *)
(* file ("font"), or present but not loadable ("corrupt": truncated, not a *)
(* font, unreadable).  fontIO logs each os.path.exists, ImageFont.truetype *)
(* and ImageFont.load_default call, tagged with the request that made it.  *)
(***************************************************************************)
DejaVuSans == "/usr/share/fonts/truetype/dejavu/DejaVuSans.ttf"
DejaVuSansBold == "/usr/share/fonts/truetype/dejavu/DejaVuSans-Bold.ttf"
LiberationSansRegular == "/usr/share/fonts/truetype/liberation/LiberationSans-Regular.ttf"
LiberationSansBold == "/usr/share/fonts/truetype/liberation/LiberationSans-Bold.ttf"

FontPaths == {DejaVuSans, DejaVuSansBold, LiberationSansRegular, LiberationSansBold}

FontFileStates == {"absent", "font", "corrupt"}

\* The list `paths' built by get_font.
paths(bold) ==
    << IF bold THEN DejaVuSansBold ELSE DejaVuSans,
       IF bold THEN LiberationSansBold ELSE LiberationSansRegular >>

\* os.path.exists(fp)
PathExists(files, fp) == files[fp] # "absent"

\* The handle ImageFont.truetype(fp, size) returns for a loadable file.
TrueTypeFont(fp, size) == [face |-> fp, size |-> size]

\* The handle ImageFont.load_default() returns: the built-in bitmap font,
\* whatever size was asked for.
DefaultFont == [face |-> "load_default"]

ExistsCall(by, fp) == [fn |-> "exists", path |-> fp, by |-> by]
TrueTypeCall(by, fp, size) == [fn |-> "truetype", path |-> fp, size |-> size, by |-> by]
LoadDefaultCall(by) == [fn |-> "load_default", by |-> by]

\* The loop of get_font from paths[i] on: [ret |-> result, io |-> calls made].
RECURSIVE get_font_from(_, _, _, _)
get_font_from(files, size, bold, i) ==
    LET by == <<size, bold>> IN
    IF i > Len(paths(bold))
    THEN [ret |-> Returned(DefaultFont), io |-> <<LoadDefaultCall(by)>>]
    ELSE LET fp == paths(bold)[i] IN
         IF PathExists(files, fp)
         THEN [ret |-> IF files[fp] = "font"
                       THEN Returned(TrueTypeFont(fp, size))
                       ELSE Raised("OSError"),
               io |-> <<ExistsCall(by, fp), TrueTypeCall(by, fp, size)>>]
         ELSE LET rest == get_font_from(files, size, bold, i + 1)
              IN  [ret |-> rest.ret, io |-> <<ExistsCall(by, fp)>> \o rest.io]

get_font(files, size, bold) == get_font_from(files, size, bold, 1)

(***************************************************************************)
(* Inputs of the font resolver: two of the sizes the generators request,   *)
(* both weights, and up to MaxFontCalls requests in one run.               *)
(***************************************************************************)
MaxFontCalls == 2

FontSizes == {13, 36}

\* A run requests fonts one after the other; a request that raises ends it.
GetFont ==
    /\ ret.ok
    /\ call.fn \in {"none", "get_font"}
    /\ (call.fn = "get_font" => call.nth < MaxFontCalls)
    /\ \E size \in FontSizes, bold \in BOOLEAN :
        LET r == get_font(fontFiles, size, bold) IN
        /\ call' = [fn |-> "get_font", size |-> size, bold |-> bold,
                    nth |-> IF call.fn = "none" THEN 1 ELSE call.nth + 1,
                    before |-> fontIO]
        /\ ret' = r.ret
        /\ fontIO' = fontIO \o r.io
    /\ UNCHANGED <<canvas, fontFiles, pipelineVars, taskVars>>

InitFont ==
    /\ canvas = <<>>
    /\ call = NoCall
    /\ ret = NoRet
    /\ fontFiles \in [FontPaths -> FontFileStates]
    /\ fontIO = <<>>
    /\ PipelineIdle

NextFont == GetFont

SpecFont == InitFont /\ [][NextFont]_vars

(***************************************************************************)
(* Shape and text primitives.  A colour argument is "None" or a colour     *)
(* string; draw_icon_circle's bg_color, which is passed to darken, carries *)
(* its Python type in bg_type ("NoneType", "str" or "tuple").  The box     *)
(* draw.textbbox((0, 0), text, font=font) returns is an input, bb.         *)
(***************************************************************************)
EllipseOp(xy, fill, outline, width) ==
    [op |-> "ellipse", xy |-> xy, fill |-> fill, outline |-> outline, width |-> width]

TextOp(xy, text, font, fill) ==
    [op |-> "text", xy |-> xy, text |-> text, font |-> font, fill |-> fill]

\* The canvas after draw_pill.
draw_pill(cv, bbox, fill, outline) ==
    LET r == (bbox[4] - bbox[2]) \div 2
    IN  cv \o <<RoundedRectOp(bbox, r, fill, outline, 1)>>

\* The canvas after draw_diamond.
draw_diamond(cv, cx, cy, size, fill, outline) ==
    LET pts == << <<cx, cy - size>>, <<cx + size, cy>>,
                  <<cx, cy + size>>, <<cx - size, cy>> >>
    IN  cv \o <<PolygonOp(pts, fill, outline)>>

\* The canvas after text_center, bb being the measured box of the text.
text_center(cv, bb, text, cx, cy, font, fill) ==
    LET tw == bb[3] - bb[1]
        th == bb[4] - bb[2]
    IN  cv \o <<TextOp(<<cx - tw \div 2, cy - th \div 2>>, text, font, fill)>>

\* draw_icon_circle: darken(bg_color) is evaluated before draw.ellipse is
\* called, and multiplies each element of bg_color by a float.
draw_icon_circle(cv, bb, cx, cy, r, bg_type, bg_color, symbol, font) ==
    IF bg_type # "tuple"
    THEN [canvas |-> cv, ret |-> Raised("TypeError")]
    ELSE [canvas |-> text_center(
                        cv \o <<EllipseOp(<<cx - r, cy - r, cx + r, cy + r>>,
                                          bg_color, darken(bg_color, 70), 2)>>,
                        bb, symbol, cx, cy, font, "white"),
          ret |-> Returned(<<>>)]

(***************************************************************************)
(* Inputs of the shape and text primitives.                                *)
(***************************************************************************)
MaxBearing == 2
MaxTextWidth == 5
MaxTextHeight == 3

\* Boxes textbbox can return: left and top need not be 0.
TextBoxes ==
    {<<l, t, l + w, t + h>> : l \in -1..MaxBearing, t \in 0..MaxBearing,
                              w \in 0..MaxTextWidth, h \in 0..MaxTextHeight}

Anchors == {<<0, 0>>, <<90, 30>>}

ShapeColours == {"None", "#FEF3C7", "#D97706"}

PillBoxes == {<<15, 12, 15 + w, 12 + h>> : w \in {0, 60}, h \in {0, 9, 26}}

DiamondSizes == {0, 50, 65}

IconRadii == {0, 12}

Texts == {"", "NPD"}

TextFonts == {TrueTypeFont(DejaVuSansBold, 13), DefaultFont}

\* bg_color values of each Python type.
IconBackgrounds ==
    { [type |-> "NoneType", color |-> <<>>],
      [type |-> "str", color |-> <<"#", "2", "5", "6", "3", "E", "B">>],
      [type |-> "tuple", color |-> <<37, 99, 235>>],
      [type |-> "tuple", color |-> <<254, 243, 199>>] }

DrawPill ==
    /\ call = NoCall
    /\ \E bbox \in PillBoxes, fill \in ShapeColours, outline \in ShapeColours :
        /\ call' = [fn |-> "draw_pill", bbox |-> bbox, fill |-> fill,
                    outline |-> outline, before |-> canvas]
        /\ canvas' = draw_pill(canvas, bbox, fill, outline)
        /\ ret' = Returned(<<>>)
    /\ UNCHANGED <<fontVars, pipelineVars, taskVars>>

DrawDiamond ==
    /\ call = NoCall
    /\ \E c \in Anchors, size \in DiamondSizes,
          fill \in ShapeColours, outline \in ShapeColours :
        /\ call' = [fn |-> "draw_diamond", cx |-> c[1], cy |-> c[2], size |-> size,
                    fill |-> fill, outline |-> outline, before |-> canvas]
        /\ canvas' = draw_diamond(canvas, c[1], c[2], size, fill, outline)
        /\ ret' = Returned(<<>>)
    /\ UNCHANGED <<fontVars, pipelineVars, taskVars>>

TextCenter ==
    /\ call = NoCall
    /\ \E bb \in TextBoxes, c \in Anchors, text \in Texts, font \in TextFonts :
        /\ call' = [fn |-> "text_center", bb |-> bb, text |-> text, cx |-> c[1],
                    cy |-> c[2], font |-> font, fill |-> "white", before |-> canvas]
        /\ canvas' = text_center(canvas, bb, text, c[1], c[2], font, "white")
        /\ ret' = Returned(<<>>)
    /\ UNCHANGED <<fontVars, pipelineVars, taskVars>>

DrawIconCircle ==
    /\ call = NoCall
    /\ \E bb \in TextBoxes, c \in Anchors, r \in IconRadii, bg \in IconBackgrounds :
        LET res == draw_icon_circle(canvas, bb, c[1], c[2], r, bg.type, bg.color,
                                    "1", DefaultFont) IN
        /\ call' = [fn |-> "draw_icon_circle", bb |-> bb, cx |-> c[1], cy |-> c[2],
                    r |-> r, bg_type |-> bg.type, bg_color |-> bg.color,
                    before |-> canvas]
        /\ canvas' = res.canvas
        /\ ret' = res.ret
    /\ UNCHANGED <<fontVars, pipelineVars, taskVars>>

InitShapes ==
    /\ canvas \in PriorCanvases
    /\ call = NoCall
    /\ ret = NoRet
    /\ FontIdle
    /\ PipelineIdle

NextShapes == DrawPill \/ DrawDiamond \/ TextCenter \/ DrawIconCircle

SpecShapes == InitShapes /\ [][NextShapes]_vars

(***************************************************************************)
(* Text layout: greedy word wrap (specification section 4.6).  A text is   *)
(* its sequence of words, a word a sequence of characters, a line the      *)
(* sequence of words it holds, joined by single spaces when measured.  A   *)
(* font is given by its glyph advances: "mono" (every glyph one unit),     *)
(* "sans" (a proportional face, advances in 1/100 em) and "caps" (capitals *)
(* three units, every other glyph one).                                    *)
(***************************************************************************)
WrapFonts == {"mono", "sans", "caps"}

SansAdvance(ch) ==
    CASE ch \in {"i", "l"} -> 6
      [] ch = " " -> 7
      [] ch \in {"r", "t"} -> 8
      [] ch \in {"c", "s"} -> 11
      [] ch = "P" -> 12
      [] ch \in {"e", "g", "n", "o", "u"} -> 13
      [] ch = "C" -> 14
      [] ch = "N" -> 15
      [] ch = "D" -> 16
      [] ch = "+" -> 17
      [] ch = "m" -> 20

GlyphAdvance(font, ch) ==
    CASE font = "mono" -> 1
      [] font = "sans" -> SansAdvance(ch)
      [] font = "caps" -> IF ch \in {"C", "D", "N", "P"} THEN 3 ELSE 1

RECURSIVE WordWidth(_, _)
WordWidth(font, word) ==
    IF word = <<>> THEN 0
    ELSE GlyphAdvance(font, Head(word)) + WordWidth(font, Tail(word))

\* measure(line, font): the width of the line's words joined by single spaces.
RECURSIVE measure(_, _)
measure(font, line) ==
    IF line = <<>> THEN 0
    ELSE IF Len(line) = 1 THEN WordWidth(font, line[1])
    ELSE WordWidth(font, line[1]) + GlyphAdvance(font, " ") + measure(font, Tail(line))

\* The wrap loop that lets a word join the current line whenever the line
\* so far is within max_width.
RECURSIVE wrap_from_testing_line_so_far(_, _, _, _, _, _)
wrap_from_testing_line_so_far(font, words, max_width, i, lines, current) ==
    IF i > Len(words)
    THEN IF current = <<>> THEN lines ELSE Append(lines, current)
    ELSE IF current = <<>> \/ measure(font, current) <= max_width
         THEN wrap_from_testing_line_so_far(font, words, max_width, i + 1, lines,
                                            Append(current, words[i]))
         ELSE wrap_from_testing_line_so_far(font, words, max_width, i + 1,
                                            Append(lines, current), <<words[i]>>)

\* The wrap loop that commits the current line on overflow and starts an
\* empty one.
RECURSIVE wrap_from_dropping_overflow(_, _, _, _, _, _)
wrap_from_dropping_overflow(font, words, max_width, i, lines, current) ==
    IF i > Len(words)
    THEN IF current = <<>> THEN lines ELSE Append(lines, current)
    ELSE IF current = <<>> \/ measure(font, Append(current, words[i])) <= max_width
         THEN wrap_from_dropping_overflow(font, words, max_width, i + 1, lines,
                                          Append(current, words[i]))
         ELSE wrap_from_dropping_overflow(font, words, max_width, i + 1,
                                          Append(lines, current), <<>>)

\* The greedy loop from word i on: words accumulate in the current line
\* while measure(current + " " + next_word) <= max_width; on overflow the
\* current line is committed and a new one starts with the overflowing word.
RECURSIVE wrap_from(_, _, _, _, _, _)
wrap_from(font, words, max_width, i, lines, current) ==
    IF i > Len(words)
    THEN IF current = <<>> THEN lines ELSE Append(lines, current)
    ELSE IF current = <<>> \/ measure(font, Append(current, words[i])) <= max_width
         THEN wrap_from(font, words, max_width, i + 1, lines,
                        Append(current, words[i]))
         ELSE wrap_from(font, words, max_width, i + 1,
                        Append(lines, current), <<words[i]>>)

wrap(text, font, max_width) == wrap_from(font, text, max_width, 1, <<>>, <<>>)

(***************************************************************************)
(* Inputs of wrap: every text of up to MaxWords words, every width up to   *)
(* MaxWrapWidth, and the end-to-end scenario of section 8: "NPD Detectors  *)
(* + Custom Plugins" at the measured width of "NPD Detectors".             *)
(***************************************************************************)
MaxWords == 3
MaxWrapWidth == 8

NPD == <<"N", "P", "D">>
Detectors == <<"D", "e", "t", "e", "c", "t", "o", "r", "s">>
Plus == <<"+">>
Custom == <<"C", "u", "s", "t", "o", "m">>
Plugins == <<"P", "l", "u", "g", "i", "n", "s">>

ScenarioText == <<NPD, Detectors, Plus, Custom, Plugins>>

WrapWords == {Plus, NPD, Custom}

WrapTexts ==
    UNION {[1..n -> WrapWords] : n \in 0..MaxWords} \cup {ScenarioText}

WrapWidths(font) == 0..MaxWrapWidth \cup {measure(font, <<NPD, Detectors>>)}

Wrap ==
    /\ call = NoCall
    /\ \E text \in WrapTexts, font \in WrapFonts :
        \E max_width \in WrapWidths(font) :
            /\ call' = [fn |-> "wrap", text |-> text, font |-> font,
                        max_width |-> max_width]
            /\ ret' = Returned(wrap(text, font, max_width))
    /\ UNCHANGED <<canvas, fontVars, pipelineVars, taskVars>>

InitWrap == ToolkitIdle /\ PipelineIdle

NextWrap == Wrap

SpecWrap == InitWrap /\ [][NextWrap]_vars

(***************************************************************************)
(* Drop shadow.  draw_shadow_rect draws the shifted rounded rectangle on a *)
(* transparent layer of the canvas's size, blurs the layer and pastes it   *)
(* onto the canvas at (0, 0) with itself as mask: one paste on the canvas. *)
(***************************************************************************)
ShadowAlpha == 60

ShadowParams == {"img", "bbox", "radius", "shadow_offset", "blur"}

\* draw_shadow_rect with the silhouette drawn with square corners.
draw_shadow_rect_square_corners(cv, size, bbox, radius, shadow_offset, blur) ==
    Append(cv, [op |-> "paste", box |-> <<0, 0>>, size |-> size,
                xy |-> [k \in 1..4 |-> bbox[k] + shadow_offset], radius |-> 0,
                fill |-> <<0, 0, 0, ShadowAlpha>>, blur |-> blur])

\* The canvas after draw_shadow_rect on a canvas of the given size.
draw_shadow_rect(cv, size, bbox, radius, shadow_offset, blur) ==
    Append(cv, [op |-> "paste", box |-> <<0, 0>>, size |-> size,
                xy |-> [k \in 1..4 |-> bbox[k] + shadow_offset], radius |-> radius,
                fill |-> <<0, 0, 0, ShadowAlpha>>, blur |-> blur])

\* A call draw_shadow_rect(img, bbox, radius, shadow_offset, blur, **kwargs):
\* a keyword that is not a parameter of the function is a TypeError.
call_draw_shadow_rect(cv, size, bbox, radius, shadow_offset, blur, kwargs) ==
    IF \E k \in 1..Len(kwargs) : kwargs[k][1] \notin ShadowParams
    THEN [canvas |-> cv, ret |-> Raised("TypeError")]
    ELSE [canvas |-> draw_shadow_rect(cv, size, bbox, radius, shadow_offset, blur),
          ret |-> Returned(<<>>)]

(***************************************************************************)
(* Inputs of the drop shadow: boxes inside, across and outside a canvas of *)
(* CanvasSize, the offsets and blurs the generators pass, and a caller     *)
(* that passes an opacity.                                                 *)
(***************************************************************************)
CanvasSize == <<2400, 1500>>

ShadowBoxes ==
    {<<x0, y0, x0 + 180, y0 + 100>> : x0 \in {-200, 0, 2300, 2400}, y0 \in {-100, 700, 1450}}

ShadowRadii == {0, 12, 20}

ShadowOffsets == {0, 4, 8}

ShadowBlurs == {5, 10}

ShadowKeywords == {<<>>, << <<"opacity", 0>> >>, << <<"opacity", ShadowAlpha>> >>}

DrawShadowRect ==
    /\ call = NoCall
    /\ \E bbox \in ShadowBoxes, radius \in ShadowRadii, shadow_offset \in ShadowOffsets,
          blur \in ShadowBlurs, kwargs \in ShadowKeywords :
        LET res == call_draw_shadow_rect(canvas, CanvasSize, bbox, radius,
                                         shadow_offset, blur, kwargs) IN
        /\ call' = [fn |-> "draw_shadow_rect", bbox |-> bbox, radius |-> radius,
                    shadow_offset |-> shadow_offset, blur |-> blur,
                    kwargs |-> kwargs, before |-> canvas]
        /\ canvas' = res.canvas
        /\ ret' = res.ret
    /\ UNCHANGED <<fontVars, pipelineVars, taskVars>>

InitShadow ==
    /\ canvas \in PriorCanvases
    /\ call = NoCall
    /\ ret = NoRet
    /\ FontIdle
    /\ PipelineIdle

NextShadow == DrawShadowRect

SpecShadow == InitShadow /\ [][NextShadow]_vars

(***************************************************************************)
(* The generate_* functions traced call by call.  Each creates its own     *)
(* image (a local variable), draws on it and saves it; task[g] holds the   *)
(* index of g's next call, its image as the log of draw calls made on it,  *)
(* and whether its save raised.  disk holds, per output path, whether it   *)
(* is absent, cannot be written, or the image saved to it.                 *)
(***************************************************************************)
\* The calls each generate_* function makes, in order: Image.new first,
\* img.save last, between them its draw calls.  Of a draw call the model
\* keeps the function called; of a rounded rectangle also its box, its
\* radius and whether it is filled; of a shadow its arguments.
Composition(g) ==
    CASE g = "generate_mindmap" ->
          << [fn |-> "Image.new", size |-> <<2400, 1800>>],
             [fn |-> "text_center"],
             [fn |-> "draw_shadow_rect", bbox |-> <<1040, 825, 1360, 935>>, radius |-> 20,
              shadow_offset |-> 8, blur |-> 10],
             [fn |-> "rounded_rectangle", xy |-> <<1040, 825, 1360, 935>>, radius |-> 20,
              filled |-> TRUE],
             [fn |-> "text_center"], [fn |-> "text_center"],
             [fn |-> "draw_shadow_rect", bbox |-> <<50, 85, 590, 780>>, radius |-> 18,
              shadow_offset |-> 7, blur |-> 9],
             [fn |-> "rounded_rectangle", xy |-> <<50, 85, 590, 780>>, radius |-> 18,
              filled |-> TRUE],
             [fn |-> "rounded_rectangle", xy |-> <<52, 87, 588, 145>>, radius |-> 16,
              filled |-> TRUE],
             [fn |-> "draw_pill"], [fn |-> "text_center"], [fn |-> "text"],
             [fn |-> "text"], [fn |-> "ellipse"], [fn |-> "text_center"],
             [fn |-> "text"], [fn |-> "ellipse"], [fn |-> "text_center"],
             [fn |-> "text"], [fn |-> "ellipse"], [fn |-> "text_center"],
             [fn |-> "text"], [fn |-> "ellipse"], [fn |-> "text_center"],
             [fn |-> "text"], [fn |-> "ellipse"], [fn |-> "text_center"],
             [fn |-> "text"], [fn |-> "ellipse"], [fn |-> "text_center"],
             [fn |-> "text"], [fn |-> "ellipse"], [fn |-> "text_center"],
             [fn |-> "text"], [fn |-> "ellipse"], [fn |-> "text_center"],
             [fn |-> "text"], [fn |-> "draw_arrow"],
             [fn |-> "draw_shadow_rect", bbox |-> <<1810, 85, 2350, 680>>, radius |-> 18,
              shadow_offset |-> 7, blur |-> 9],
             [fn |-> "rounded_rectangle", xy |-> <<1810, 85, 2350, 680>>, radius |-> 18,
              filled |-> TRUE],
             [fn |-> "rounded_rectangle", xy |-> <<1812, 87, 2348, 145>>, radius |-> 16,
              filled |-> TRUE],
             [fn |-> "draw_pill"], [fn |-> "text_center"], [fn |-> "text"],
             [fn |-> "text"], [fn |-> "ellipse"], [fn |-> "text_center"],
             [fn |-> "text"], [fn |-> "ellipse"], [fn |-> "text_center"],
             [fn |-> "text"], [fn |-> "ellipse"], [fn |-> "text_center"],
             [fn |-> "text"], [fn |-> "ellipse"], [fn |-> "text_center"],
             [fn |-> "text"], [fn |-> "ellipse"], [fn |-> "text_center"],
             [fn |-> "text"], [fn |-> "ellipse"], [fn |-> "text_center"],
             [fn |-> "text"], [fn |-> "draw_arrow"],
             [fn |-> "draw_shadow_rect", bbox |-> <<50, 870, 590, 1440>>, radius |-> 18,
              shadow_offset |-> 7, blur |-> 9],
             [fn |-> "rounded_rectangle", xy |-> <<50, 870, 590, 1440>>, radius |-> 18,
              filled |-> TRUE],
             [fn |-> "rounded_rectangle", xy |-> <<52, 872, 588, 930>>, radius |-> 16,
              filled |-> TRUE],
             [fn |-> "draw_pill"], [fn |-> "text_center"], [fn |-> "text"],
             [fn |-> "text"], [fn |-> "ellipse"], [fn |-> "text_center"],
             [fn |-> "text"], [fn |-> "ellipse"], [fn |-> "text_center"],
             [fn |-> "text"], [fn |-> "ellipse"], [fn |-> "text_center"],
             [fn |-> "text"], [fn |-> "ellipse"], [fn |-> "text_center"],
             [fn |-> "text"], [fn |-> "ellipse"], [fn |-> "text_center"],
             [fn |-> "text"], [fn |-> "ellipse"], [fn |-> "text_center"],
             [fn |-> "text"], [fn |-> "draw_arrow"],
             [fn |-> "draw_shadow_rect", bbox |-> <<1810, 870, 2350, 1440>>, radius |-> 18,
              shadow_offset |-> 7, blur |-> 9],
             [fn |-> "rounded_rectangle", xy |-> <<1810, 870, 2350, 1440>>, radius |-> 18,
              filled |-> TRUE],
             [fn |-> "rounded_rectangle", xy |-> <<1812, 872, 2348, 930>>, radius |-> 16,
              filled |-> TRUE],
             [fn |-> "text"], [fn |-> "text"], [fn |-> "ellipse"],
             [fn |-> "text_center"], [fn |-> "text"], [fn |-> "ellipse"],
             [fn |-> "text_center"], [fn |-> "text"], [fn |-> "ellipse"],
             [fn |-> "text_center"], [fn |-> "text"], [fn |-> "ellipse"],
             [fn |-> "text_center"], [fn |-> "text"], [fn |-> "ellipse"],
             [fn |-> "text_center"], [fn |-> "text"], [fn |-> "draw_arrow"],
             [fn |-> "text"],
             [fn |-> "save", path |-> "01_mindmap_overview.png"] >>
      [] g = "generate_workflow" ->
          << [fn |-> "Image.new", size |-> <<2400, 1500>>],
             [fn |-> "text_center"],
             [fn |-> "rounded_rectangle", xy |-> <<60, 280, 180, 320>>, radius |-> 8,
              filled |-> TRUE],
             [fn |-> "text_center"],
             [fn |-> "rounded_rectangle", xy |-> <<60, 335, 180, 375>>, radius |-> 8,
              filled |-> TRUE],
             [fn |-> "text_center"],
             [fn |-> "rounded_rectangle", xy |-> <<60, 390, 180, 430>>, radius |-> 8,
              filled |-> TRUE],
             [fn |-> "text_center"],
             [fn |-> "rounded_rectangle", xy |-> <<60, 445, 180, 485>>, radius |-> 8,
              filled |-> TRUE],
             [fn |-> "text_center"],
             [fn |-> "rounded_rectangle", xy |-> <<60, 500, 180, 540>>, radius |-> 8,
              filled |-> TRUE],
             [fn |-> "text_center"],
             [fn |-> "draw_shadow_rect", bbox |-> <<250, 350, 430, 450>>, radius |-> 15,
              shadow_offset |-> 5, blur |-> 7],
             [fn |-> "rounded_rectangle", xy |-> <<250, 350, 430, 450>>, radius |-> 15,
              filled |-> TRUE],
             [fn |-> "text_center"], [fn |-> "text_center"],
             [fn |-> "text_center"], [fn |-> "draw_arrow"], [fn |-> "draw_arrow"],
             [fn |-> "draw_arrow"], [fn |-> "draw_arrow"], [fn |-> "draw_arrow"],
             [fn |-> "draw_shadow_rect", bbox |-> <<500, 270, 670, 320>>, radius |-> 10,
              shadow_offset |-> 4, blur |-> 5],
             [fn |-> "rounded_rectangle", xy |-> <<500, 270, 670, 320>>, radius |-> 10,
              filled |-> TRUE],
             [fn |-> "text_center"],
             [fn |-> "draw_shadow_rect", bbox |-> <<500, 400, 670, 450>>, radius |-> 10,
              shadow_offset |-> 4, blur |-> 5],
             [fn |-> "rounded_rectangle", xy |-> <<500, 400, 670, 450>>, radius |-> 10,
              filled |-> TRUE],
             [fn |-> "text_center"],
             [fn |-> "draw_shadow_rect", bbox |-> <<500, 530, 670, 580>>, radius |-> 10,
              shadow_offset |-> 4, blur |-> 5],
             [fn |-> "rounded_rectangle", xy |-> <<500, 530, 670, 580>>, radius |-> 10,
              filled |-> TRUE],
             [fn |-> "text_center"], [fn |-> "draw_arrow"], [fn |-> "draw_arrow"],
             [fn |-> "draw_arrow"], [fn |-> "draw_diamond"],
             [fn |-> "text_center"], [fn |-> "text_center"],
             [fn |-> "draw_arrow"], [fn |-> "text"], [fn |-> "draw_arrow"],
             [fn |-> "draw_shadow_rect", bbox |-> <<720, 570, 890, 640>>, radius |-> 12,
              shadow_offset |-> 4, blur |-> 6],
             [fn |-> "rounded_rectangle", xy |-> <<720, 570, 890, 640>>, radius |-> 12,
              filled |-> TRUE],
             [fn |-> "text_center"], [fn |-> "text_center"],
             [fn |-> "draw_diamond"], [fn |-> "text_center"],
             [fn |-> "draw_arrow"], [fn |-> "text"], [fn |-> "draw_arrow"],
             [fn |-> "draw_shadow_rect", bbox |-> <<580, 830, 760, 895>>, radius |-> 12,
              shadow_offset |-> 4, blur |-> 6],
             [fn |-> "rounded_rectangle", xy |-> <<580, 830, 760, 895>>, radius |-> 12,
              filled |-> TRUE],
             [fn |-> "text_center"], [fn |-> "text_center"], [fn |-> "text"],
             [fn |-> "draw_arrow"],
             [fn |-> "draw_shadow_rect", bbox |-> <<900, 830, 1080, 895>>, radius |-> 12,
              shadow_offset |-> 4, blur |-> 6],
             [fn |-> "rounded_rectangle", xy |-> <<900, 830, 1080, 895>>, radius |-> 12,
              filled |-> TRUE],
             [fn |-> "text_center"], [fn |-> "text_center"], [fn |-> "text"],
             [fn |-> "draw_arrow"],
             [fn |-> "draw_shadow_rect", bbox |-> <<990, 320, 1180, 395>>, radius |-> 12,
              shadow_offset |-> 4, blur |-> 6],
             [fn |-> "rounded_rectangle", xy |-> <<990, 320, 1180, 395>>, radius |-> 12,
              filled |-> TRUE],
             [fn |-> "text_center"], [fn |-> "text_center"],
             [fn |-> "draw_arrow"],
             [fn |-> "draw_shadow_rect", bbox |-> <<1220, 320, 1410, 395>>, radius |-> 12,
              shadow_offset |-> 4, blur |-> 6],
             [fn |-> "rounded_rectangle", xy |-> <<1220, 320, 1410, 395>>, radius |-> 12,
              filled |-> TRUE],
             [fn |-> "text_center"], [fn |-> "draw_arrow"],
             [fn |-> "draw_shadow_rect", bbox |-> <<1450, 320, 1640, 395>>, radius |-> 12,
              shadow_offset |-> 4, blur |-> 6],
             [fn |-> "rounded_rectangle", xy |-> <<1450, 320, 1640, 395>>, radius |-> 12,
              filled |-> TRUE],
             [fn |-> "text_center"], [fn |-> "text_center"],
             [fn |-> "draw_arrow"],
             [fn |-> "draw_shadow_rect", bbox |-> <<1700, 320, 1890, 395>>, radius |-> 12,
              shadow_offset |-> 4, blur |-> 6],
             [fn |-> "rounded_rectangle", xy |-> <<1700, 320, 1890, 395>>, radius |-> 12,
              filled |-> TRUE],
             [fn |-> "text_center"], [fn |-> "text_center"], [fn |-> "text"],
             [fn |-> "rounded_rectangle", xy |-> <<1600, 1080, 1620, 1100>>, radius |-> 4,
              filled |-> TRUE],
             [fn |-> "text"],
             [fn |-> "rounded_rectangle", xy |-> <<1600, 1110, 1620, 1130>>, radius |-> 4,
              filled |-> TRUE],
             [fn |-> "text"],
             [fn |-> "rounded_rectangle", xy |-> <<1600, 1140, 1620, 1160>>, radius |-> 4,
              filled |-> TRUE],
             [fn |-> "text"],
             [fn |-> "rounded_rectangle", xy |-> <<1600, 1170, 1620, 1190>>, radius |-> 4,
              filled |-> TRUE],
             [fn |-> "text"],
             [fn |-> "rounded_rectangle", xy |-> <<1600, 1200, 1620, 1220>>, radius |-> 4,
              filled |-> TRUE],
             [fn |-> "text"],
             [fn |-> "rounded_rectangle", xy |-> <<1600, 1230, 1620, 1250>>, radius |-> 4,
              filled |-> TRUE],
             [fn |-> "text"],
             [fn |-> "save", path |-> "03_workflow_diagram.png"] >>
      [] g = "generate_image_pipeline" ->
          << [fn |-> "Image.new", size |-> <<2400, 1500>>],
             [fn |-> "text_center"], [fn |-> "text"], [fn |-> "line"],
             [fn |-> "draw_shadow_rect", bbox |-> <<60, 140, 480, 275>>, radius |-> 12,
              shadow_offset |-> 5, blur |-> 6],
             [fn |-> "rounded_rectangle", xy |-> <<60, 140, 480, 275>>, radius |-> 12,
              filled |-> TRUE],
             [fn |-> "rounded_rectangle", xy |-> <<62, 142, 478, 178>>, radius |-> 10,
              filled |-> TRUE],
             [fn |-> "text"], [fn |-> "draw_pill"], [fn |-> "text"],
             [fn |-> "text"], [fn |-> "text"],
             [fn |-> "draw_shadow_rect", bbox |-> <<60, 300, 480, 435>>, radius |-> 12,
              shadow_offset |-> 5, blur |-> 6],
             [fn |-> "rounded_rectangle", xy |-> <<60, 300, 480, 435>>, radius |-> 12,
              filled |-> TRUE],
             [fn |-> "rounded_rectangle", xy |-> <<62, 302, 478, 338>>, radius |-> 10,
              filled |-> TRUE],
             [fn |-> "text"], [fn |-> "draw_pill"], [fn |-> "text"],
             [fn |-> "text"], [fn |-> "text"],
             [fn |-> "draw_shadow_rect", bbox |-> <<60, 460, 480, 595>>, radius |-> 12,
              shadow_offset |-> 5, blur |-> 6],
             [fn |-> "rounded_rectangle", xy |-> <<60, 460, 480, 595>>, radius |-> 12,
              filled |-> TRUE],
             [fn |-> "rounded_rectangle", xy |-> <<62, 462, 478, 498>>, radius |-> 10,
              filled |-> TRUE],
             [fn |-> "text"], [fn |-> "draw_pill"], [fn |-> "text"],
             [fn |-> "text"], [fn |-> "text"],
             [fn |-> "draw_shadow_rect", bbox |-> <<60, 620, 480, 755>>, radius |-> 12,
              shadow_offset |-> 5, blur |-> 6],
             [fn |-> "rounded_rectangle", xy |-> <<60, 620, 480, 755>>, radius |-> 12,
              filled |-> TRUE],
             [fn |-> "rounded_rectangle", xy |-> <<62, 622, 478, 658>>, radius |-> 10,
              filled |-> TRUE],
             [fn |-> "text"], [fn |-> "draw_pill"], [fn |-> "text"],
             [fn |-> "text"], [fn |-> "text"],
             [fn |-> "draw_shadow_rect", bbox |-> <<60, 780, 480, 915>>, radius |-> 12,
              shadow_offset |-> 5, blur |-> 6],
             [fn |-> "rounded_rectangle", xy |-> <<60, 780, 480, 915>>, radius |-> 12,
              filled |-> TRUE],
             [fn |-> "rounded_rectangle", xy |-> <<62, 782, 478, 818>>, radius |-> 10,
              filled |-> TRUE],
             [fn |-> "text"], [fn |-> "draw_pill"], [fn |-> "text"],
             [fn |-> "text"], [fn |-> "text"],
             [fn |-> "draw_shadow_rect", bbox |-> <<580, 230, 1020, 570>>, radius |-> 18,
              shadow_offset |-> 8, blur |-> 10],
             [fn |-> "rounded_rectangle", xy |-> <<580, 230, 1020, 570>>, radius |-> 18,
              filled |-> TRUE],
             [fn |-> "rounded_rectangle", xy |-> <<585, 235, 1015, 285>>, radius |-> 14,
              filled |-> TRUE],
             [fn |-> "text_center"], [fn |-> "text"], [fn |-> "text"],
             [fn |-> "text"], [fn |-> "text"], [fn |-> "text"], [fn |-> "text"],
             [fn |-> "draw_shadow_rect", bbox |-> <<600, 620, 1000, 700>>, radius |-> 14,
              shadow_offset |-> 5, blur |-> 7],
             [fn |-> "rounded_rectangle", xy |-> <<600, 620, 1000, 700>>, radius |-> 14,
              filled |-> TRUE],
             [fn |-> "text_center"], [fn |-> "text_center"],
             [fn |-> "draw_arrow"], [fn |-> "draw_arrow"], [fn |-> "draw_arrow"],
             [fn |-> "draw_arrow"], [fn |-> "draw_arrow"], [fn |-> "draw_arrow"],
             [fn |-> "draw_arrow"],
             [fn |-> "draw_shadow_rect", bbox |-> <<1120, 170, 1500, 450>>, radius |-> 16,
              shadow_offset |-> 6, blur |-> 8],
             [fn |-> "rounded_rectangle", xy |-> <<1120, 170, 1500, 450>>, radius |-> 16,
              filled |-> TRUE],
             [fn |-> "rounded_rectangle", xy |-> <<1123, 173, 1497, 218>>, radius |-> 13,
              filled |-> TRUE],
             [fn |-> "text_center"], [fn |-> "text"], [fn |-> "text"],
             [fn |-> "text"], [fn |-> "text"], [fn |-> "text"],
             [fn |-> "draw_arrow"],
             [fn |-> "draw_shadow_rect", bbox |-> <<1580, 170, 1860, 250>>, radius |-> 12,
              shadow_offset |-> 4, blur |-> 6],
             [fn |-> "rounded_rectangle", xy |-> <<1580, 170, 1860, 250>>, radius |-> 12,
              filled |-> TRUE],
             [fn |-> "text_center"], [fn |-> "text_center"],
             [fn |-> "draw_arrow"],
             [fn |-> "draw_shadow_rect", bbox |-> <<1580, 280, 1860, 360>>, radius |-> 12,
              shadow_offset |-> 4, blur |-> 6],
             [fn |-> "rounded_rectangle", xy |-> <<1580, 280, 1860, 360>>, radius |-> 12,
              filled |-> TRUE],
             [fn |-> "text_center"], [fn |-> "text_center"],
             [fn |-> "draw_arrow"],
             [fn |-> "draw_shadow_rect", bbox |-> <<1580, 390, 1860, 470>>, radius |-> 12,
              shadow_offset |-> 4, blur |-> 6],
             [fn |-> "rounded_rectangle", xy |-> <<1580, 390, 1860, 470>>, radius |-> 12,
              filled |-> TRUE],
             [fn |-> "text_center"], [fn |-> "text_center"],
             [fn |-> "draw_arrow"],
             [fn |-> "draw_shadow_rect", bbox |-> <<1580, 530, 1860, 615>>, radius |-> 12,
              shadow_offset |-> 4, blur |-> 6],
             [fn |-> "rounded_rectangle", xy |-> <<1580, 530, 1860, 615>>, radius |-> 12,
              filled |-> TRUE],
             [fn |-> "text_center"], [fn |-> "text_center"],
             [fn |-> "text_center"], [fn |-> "draw_arrow"], [fn |-> "text"],
             [fn |-> "line"], [fn |-> "text"], [fn |-> "text"], [fn |-> "text"],
             [fn |-> "text"], [fn |-> "text"], [fn |-> "text"],
             [fn |-> "save", path |-> "07_image_pipeline.png"] >>
      [] g = "generate_lifecycle_combined" ->
          << [fn |-> "Image.new", size |-> <<2400, 1500>>],
             [fn |-> "text_center"], [fn |-> "text"], [fn |-> "line"],
             [fn |-> "text"],
             [fn |-> "rounded_rectangle", xy |-> <<60, 145, 150, 173>>, radius |-> 6,
              filled |-> TRUE],
             [fn |-> "text_center"],
             [fn |-> "rounded_rectangle", xy |-> <<60, 180, 150, 208>>, radius |-> 6,
              filled |-> TRUE],
             [fn |-> "text_center"],
             [fn |-> "rounded_rectangle", xy |-> <<60, 215, 150, 243>>, radius |-> 6,
              filled |-> TRUE],
             [fn |-> "text_center"],
             [fn |-> "rounded_rectangle", xy |-> <<60, 250, 150, 278>>, radius |-> 6,
              filled |-> TRUE],
             [fn |-> "text_center"],
             [fn |-> "rounded_rectangle", xy |-> <<60, 285, 150, 313>>, radius |-> 6,
              filled |-> TRUE],
             [fn |-> "text_center"],
             [fn |-> "draw_shadow_rect", bbox |-> <<220, 150, 380, 300>>, radius |-> 12,
              shadow_offset |-> 4, blur |-> 6],
             [fn |-> "rounded_rectangle", xy |-> <<220, 150, 380, 300>>, radius |-> 12,
              filled |-> TRUE],
             [fn |-> "text_center"], [fn |-> "text_center"],
             [fn |-> "text_center"], [fn |-> "text_center"],
             [fn |-> "draw_arrow"], [fn |-> "draw_arrow"], [fn |-> "draw_arrow"],
             [fn |-> "draw_arrow"], [fn |-> "draw_arrow"],
             [fn |-> "draw_shadow_rect", bbox |-> <<470, 150, 680, 250>>, radius |-> 12,
              shadow_offset |-> 4, blur |-> 6],
             [fn |-> "rounded_rectangle", xy |-> <<470, 150, 680, 250>>, radius |-> 12,
              filled |-> TRUE],
             [fn |-> "text_center"], [fn |-> "text_center"],
             [fn |-> "text_center"],
             [fn |-> "draw_shadow_rect", bbox |-> <<720, 150, 930, 250>>, radius |-> 12,
              shadow_offset |-> 4, blur |-> 6],
             [fn |-> "rounded_rectangle", xy |-> <<720, 150, 930, 250>>, radius |-> 12,
              filled |-> TRUE],
             [fn |-> "text_center"], [fn |-> "text_center"],
             [fn |-> "text_center"],
             [fn |-> "draw_shadow_rect", bbox |-> <<970, 150, 1180, 250>>, radius |-> 12,
              shadow_offset |-> 4, blur |-> 6],
             [fn |-> "rounded_rectangle", xy |-> <<970, 150, 1180, 250>>, radius |-> 12,
              filled |-> TRUE],
             [fn |-> "text_center"], [fn |-> "text_center"],
             [fn |-> "text_center"],
             [fn |-> "draw_shadow_rect", bbox |-> <<1220, 150, 1430, 250>>, radius |-> 12,
              shadow_offset |-> 4, blur |-> 6],
             [fn |-> "rounded_rectangle", xy |-> <<1220, 150, 1430, 250>>, radius |-> 12,
              filled |-> TRUE],
             [fn |-> "text_center"], [fn |-> "text_center"],
             [fn |-> "text_center"], [fn |-> "text"], [fn |-> "draw_arrow"],
             [fn |-> "draw_arrow"],
             [fn |-> "draw_shadow_rect", bbox |-> <<720, 310, 900, 370>>, radius |-> 10,
              shadow_offset |-> 4, blur |-> 5],
             [fn |-> "rounded_rectangle", xy |-> <<720, 310, 900, 370>>, radius |-> 10,
              filled |-> TRUE],
             [fn |-> "text_center"], [fn |-> "text_center"],
             [fn |-> "draw_arrow"], [fn |-> "draw_arrow"], [fn |-> "text"],
             [fn |-> "draw_arrow"], [fn |-> "draw_arrow"], [fn |-> "text"],
             [fn |-> "text"], [fn |-> "text"], [fn |-> "line"],
             [fn |-> "draw_shadow_rect", bbox |-> <<60, 480, 560, 810>>, radius |-> 16,
              shadow_offset |-> 6, blur |-> 8],
             [fn |-> "rounded_rectangle", xy |-> <<60, 480, 560, 810>>, radius |-> 16,
              filled |-> TRUE],
             [fn |-> "rounded_rectangle", xy |-> <<65, 485, 555, 535>>, radius |-> 12,
              filled |-> TRUE],
             [fn |-> "text_center"], [fn |-> "text_center"], [fn |-> "text"],
             [fn |-> "text"], [fn |-> "text"], [fn |-> "text"], [fn |-> "text"],
             [fn |-> "text"], [fn |-> "text"], [fn |-> "text"], [fn |-> "text"],
             [fn |-> "text"],
             [fn |-> "draw_shadow_rect", bbox |-> <<650, 500, 850, 580>>, radius |-> 12,
              shadow_offset |-> 5, blur |-> 7],
             [fn |-> "rounded_rectangle", xy |-> <<650, 500, 850, 580>>, radius |-> 12,
              filled |-> TRUE],
             [fn |-> "text_center"], [fn |-> "text_center"], [fn |-> "text"],
             [fn |-> "draw_arrow"], [fn |-> "draw_arrow"], [fn |-> "text"],
             [fn |-> "draw_arrow"], [fn |-> "text"],
             [fn |-> "draw_shadow_rect", bbox |-> <<900, 650, 1120, 730>>, radius |-> 12,
              shadow_offset |-> 4, blur |-> 6],
             [fn |-> "rounded_rectangle", xy |-> <<900, 650, 1120, 730>>, radius |-> 12,
              filled |-> TRUE],
             [fn |-> "text_center"], [fn |-> "text_center"],
             [fn |-> "draw_shadow_rect", bbox |-> <<650, 830, 870, 910>>, radius |-> 12,
              shadow_offset |-> 5, blur |-> 7],
             [fn |-> "rounded_rectangle", xy |-> <<650, 830, 870, 910>>, radius |-> 12,
              filled |-> TRUE],
             [fn |-> "text_center"], [fn |-> "text_center"],
             [fn |-> "draw_shadow_rect", bbox |-> <<1050, 830, 1270, 910>>, radius |-> 12,
              shadow_offset |-> 5, blur |-> 7],
             [fn |-> "rounded_rectangle", xy |-> <<1050, 830, 1270, 910>>, radius |-> 12,
              filled |-> TRUE],
             [fn |-> "text_center"], [fn |-> "text_center"],
             [fn |-> "draw_arrow"], [fn |-> "text"], [fn |-> "draw_arrow"],
             [fn |-> "text"], [fn |-> "text"], [fn |-> "draw_arrow"],
             [fn |-> "draw_arrow"], [fn |-> "text"], [fn |-> "draw_arrow"],
             [fn |-> "text"], [fn |-> "text"],
             [fn |-> "rounded_rectangle", xy |-> <<1550, 1010, 1570, 1030>>, radius |-> 4,
              filled |-> TRUE],
             [fn |-> "text"],
             [fn |-> "rounded_rectangle", xy |-> <<1550, 1038, 1570, 1058>>, radius |-> 4,
              filled |-> TRUE],
             [fn |-> "text"],
             [fn |-> "rounded_rectangle", xy |-> <<1550, 1066, 1570, 1086>>, radius |-> 4,
              filled |-> TRUE],
             [fn |-> "text"],
             [fn |-> "rounded_rectangle", xy |-> <<1550, 1094, 1570, 1114>>, radius |-> 4,
              filled |-> TRUE],
             [fn |-> "text"],
             [fn |-> "rounded_rectangle", xy |-> <<1550, 1122, 1570, 1142>>, radius |-> 4,
              filled |-> TRUE],
             [fn |-> "text"],
             [fn |-> "rounded_rectangle", xy |-> <<1550, 1150, 1570, 1170>>, radius |-> 4,
              filled |-> TRUE],
             [fn |-> "text"],
             [fn |-> "save", path |-> "06_lifecycle_combined.png"] >>

NextCall(g) == Composition(g)[task[g].pc]

\* g has a next call, and no uncaught exception has ended the script.
Running(g) ==
    /\ task[g].pc <= Len(Composition(g))
    /\ \A h \in DOMAIN task : ~task[h].raised

\* The image after draw call c on it.
draw_call(img, size, c) ==
    IF c.fn = "draw_shadow_rect"
    THEN draw_shadow_rect(img, size, c.bbox, c.radius, c.shadow_offset, c.blur)
    ELSE Append(img, c)

\* The image after the draw calls calls[i], calls[i + 1], ... up to the save,
\* the last call: each draw call adds its entry to the image's log.
draw_calls(img, size, calls, i) ==
    img \o [k \in 1..(Len(calls) - i) |-> draw_call(<<>>, size, calls[i + k - 1])[1]]

\* img = Image.new("RGBA", (W, H), ...)
NewImage(g) ==
    /\ Running(g)
    /\ NextCall(g).fn = "Image.new"
    /\ task' = [task EXCEPT ![g] = [pc |-> @.pc + 1, size |-> NextCall(g).size,
                                    img |-> <<>>, raised |-> FALSE]]
    /\ UNCHANGED <<disk, toolkitVars, pipelineVars>>

\* One draw call of g on its image.
DrawCall(g) ==
    /\ Running(g)
    /\ NextCall(g).fn \notin {"Image.new", "save"}
    /\ task' = [task EXCEPT ![g].pc = @ + 1,
                            ![g].img = draw_call(@, task[g].size, NextCall(g))]
    /\ UNCHANGED <<disk, toolkitVars, pipelineVars>>

\* All the draw calls of g on its image, as one step.
ComposeImage(g) ==
    /\ Running(g)
    /\ NextCall(g).fn \notin {"Image.new", "save"}
    /\ task' = [task EXCEPT ![g].pc = Len(Composition(g)),
                            ![g].img = draw_calls(@, task[g].size, Composition(g),
                                                  task[g].pc)]
    /\ UNCHANGED <<disk, toolkitVars, pipelineVars>>

\* img.save(out): writes the file, or raises when it cannot be written.
SaveImage(g) ==
    /\ Running(g)
    /\ NextCall(g).fn = "save"
    /\ IF disk[NextCall(g).path].state = "unwritable"
       THEN /\ task' = [task EXCEPT ![g].raised = TRUE]
            /\ UNCHANGED disk
       ELSE /\ task' = [task EXCEPT ![g].pc = @ + 1]
            /\ disk' = [disk EXCEPT ![NextCall(g).path] =
                            [state |-> "written", size |-> task[g].size,
                             image |-> task[g].img]]
    /\ UNCHANGED <<toolkitVars, pipelineVars>>

InitTasks ==
    /\ task = [g \in {GeneratorOrder[i] : i \in 1..Len(GeneratorOrder)} |->
                [pc |-> 1, size |-> <<0, 0>>, img |-> <<>>, raised |-> FALSE]]
    /\ disk \in [GeneratedFiles -> {[state |-> "absent"], [state |-> "unwritable"]}]
    /\ ToolkitIdle
    /\ fs = {}
    /\ gpc = "idle"
    /\ saved = <<>>
    /\ saveErr = ""
    /\ dpc = 0
    /\ doc = <<>>

\* The __main__ block: each generate_* function runs when those before it
\* have returned.
NextCompose ==
    \E j \in 1..Len(GeneratorOrder) :
        /\ \A i \in 1..(j - 1) :
            task[GeneratorOrder[i]].pc > Len(Composition(GeneratorOrder[i]))
        /\ \/ NewImage(GeneratorOrder[j])
           \/ DrawCall(GeneratorOrder[j])
           \/ SaveImage(GeneratorOrder[j])

SpecCompose == InitTasks /\ [][NextCompose]_vars

\* The generate_* functions called in any order, or as interleaved tasks.
NextAnyOrder ==
    \E g \in DOMAIN task : NewImage(g) \/ ComposeImage(g) \/ SaveImage(g)

SpecAnyOrder == InitTasks /\ [][NextAnyOrder]_vars

(***************************************************************************)
(* Claims about the two scripts (checked under SpecPipeline).              *)
(***************************************************************************)
Range(q) == {q[i] : i \in 1..Len(q)}

GeneratorEnded == gpc \in {"done", "crashed"}

\* C1: a save failure in one generator is fatal to that diagram only:
\* when the run has ended, every other diagram has been generated and
\* written.
C1_SaveFailureIsolated ==
    GeneratorEnded => \A f \in GeneratedFiles : f # saveErr => f \in Range(saved)

\* The figures the section function at step n of main() embeds.
FiguresOfStep(n) ==
    IF MainSteps[n] = "add_executive_summary" THEN {1}
    ELSE IF MainSteps[n] = "add_architecture_design" THEN {2, 3, 4, 5}
    ELSE {}

\* Blocks `added' hold figure i as add_diagram is to leave it given the
\* files present: the picture and no placeholder text when the file
\* exists, else no picture and the placeholder naming the caption; the
\* caption paragraph follows either, and more of the document after it.
FigureEmbedded(added, files, i) ==
    \E j \in 1..(Len(added) - 2) :
        /\ added[j].kind = "figure"
        /\ added[j + 1] = [kind |-> "caption", text |-> Figures[i].caption]
        /\ IF Figures[i].file \in files
           THEN added[j].picture = Figures[i].file /\ added[j].text = <<>>
           ELSE /\ added[j].picture = "None"
                /\ added[j].text = <<"[Diagram: ", Figures[i].caption,
                                     " - image not found]">>

\* C2: add_diagram on a path that does not exist adds the placeholder
\* naming the caption in place of the picture and still adds the caption;
\* on a path that exists it embeds the picture and adds no placeholder
\* text; either way no error stops main(): the next step is enabled until
\* the document is saved.
C2_MissingImagePlaceholder ==
    /\ [][\A n \in 1..Len(MainSteps) :
            (dpc = n /\ dpc' = n + 1) =>
                \A i \in FiguresOfStep(n) :
                    FigureEmbedded(SubSeq(doc', Len(doc) + 1, Len(doc')), fs, i)]_vars
    /\ [](dpc \in 1..(Len(MainSteps) + 1) => ENABLED AssemblerStep)

C2_Witness ==
    /\ AssemblerDone
    /\ \E j \in 1..Len(doc) :
        /\ doc[j].kind = "figure"
        /\ doc[j].text = Placeholder(Figures[2].caption)
        /\ doc[j + 1] = [kind |-> "caption", text |-> Figures[2].caption]
    /\ \E j \in 1..Len(doc) :
        doc[j].kind = "figure" /\ doc[j].picture = "03_workflow_diagram.png"
    /\ doc[Len(doc)] = Content("add_appendix_glossary", 1)

(***************************************************************************)
(* Claims about the colour helpers (checked under SpecColour).             *)
(***************************************************************************)
\* The documented colour format: one optional leading '#', then exactly
\* six hex digits.
WellFormedHex(h) ==
    LET body == IF h # <<>> /\ Head(h) = "#" THEN Tail(h) ELSE h
    IN  Len(body) = 6 /\ \A k \in 1..6 : IsHexDigit(body[k])

\* C6: every input that is not exactly six hex digits after an optional
\* single leading '#' is rejected with an error and yields no colour.
C6_MalformedHexRejected ==
    call.fn = "hex_to_rgb" => (WellFormedHex(call.h) \/ ~ret.ok)

\* C7: for every colour with channels in [0,255] and every factor, each
\* channel of darken(colour, factor) and of lighten(colour, factor) is in
\* [0,255].
C7_ScaledChannelsClamped ==
    call.fn \in {"darken", "lighten"} =>
        \A k \in 1..3 : ret.val[k] \in 0..255

\* C8: darken(c, 1.0) = c and lighten(c, 1.0) = c for every colour c with
\* channels in [0,255].
C8_IdentityFactor ==
    (call.fn \in {"darken", "lighten"} /\ call.f100 = 100) =>
        ret.val = call.rgb

C8_Witness ==
    /\ call.fn = "darken"
    /\ call.f100 = 100
    /\ call.rgb = <<200, 29, 114>>
    /\ ret.val = <<200, 29, 114>>

\* C9: every channel of darken(c, f) with f < 1 is <= the channel of c,
\* and every channel of lighten(c, f) with f > 1 is >= the channel of c.
C9_DarkenLowersLightenRaises ==
    /\ (call.fn = "darken" /\ call.f100 < 100) =>
            \A k \in 1..3 : ret.val[k] <= call.rgb[k]
    /\ (call.fn = "lighten" /\ call.f100 > 100) =>
            \A k \in 1..3 : ret.val[k] >= call.rgb[k]

C9_Witness ==
    /\ call.fn = "lighten"
    /\ call.f100 = 130
    /\ call.rgb = <<255, 84, 169>>
    /\ ret.val = <<255, 109, 219>>

(***************************************************************************)
(* Claims about the arrow renderer (checked under SpecArrow).              *)
(***************************************************************************)
\* The draw calls the last primitive call added to the canvas.
Issued == SubSeq(canvas, Len(call.before) + 1, Len(canvas))

ArrowCalled == call.fn = "draw_arrow"
Degenerate == call.start = call.end

\* C3: draw_arrow with start = end issues no draw call (neither the shaft
\* line nor the arrowhead polygon) and leaves the canvas unchanged.
C3_ZeroLengthArrowDrawsNothing ==
    (ArrowCalled /\ Degenerate) => (Issued = <<>> /\ canvas = call.before)

\* The triangle of the arrow renderer's contract, from start, end and h:
\* u the unit vector from start to end, p = (-u.y, u.x), vertices end,
\* end - h*u + 0.4*h*p and end - h*u - 0.4*h*p.
ContractTriangle(start, end, h) ==
    LET len == Sqrt((end[1] - start[1]) * (end[1] - start[1])
                    + (end[2] - start[2]) * (end[2] - start[2]))
        u == <<QNorm(end[1] - start[1], len), QNorm(end[2] - start[2], len)>>
        p == <<QNeg(u[2]), u[1]>>
        back == [k \in 1..2 |-> QSub(QInt(end[k]), QMul(QInt(h), u[k]))]
        side == [k \in 1..2 |-> QMul(QNorm(4 * h, 10), p[k])]
    IN  {<<QInt(end[1]), QInt(end[2])>>,
         <<QAdd(back[1], side[1]), QAdd(back[2], side[2])>>,
         <<QSub(back[1], side[1]), QSub(back[2], side[2])>>}

HeadOf(cv) == cv[Len(cv)].xy

\* C4: for start # end the polygon drawn is exactly the contract's
\* triangle, its first vertex (the tip) is the end point, and for
\* (0,50) -> (100,50) with head length 12 the base vertices are (88, 54.8)
\* and (88, 45.2).
C4_ArrowheadIsContractTriangle ==
    (ArrowCalled /\ ~Degenerate) =>
        /\ canvas[Len(canvas)].op = "polygon"
        /\ {HeadOf(canvas)[k] : k \in 1..3}
                = ContractTriangle(call.start, call.end, call.head_size)
        /\ HeadOf(canvas)[1] = <<QInt(call.end[1]), QInt(call.end[2])>>
        /\ (call.start = <<0, 50>> /\ call.end = <<100, 50>> /\ call.head_size = 12) =>
                {HeadOf(canvas)[k] : k \in 1..3}
                    = {<<<<100, 1>>, <<50, 1>>>>,
                       <<<<88, 1>>, <<274, 5>>>>,
                       <<<<88, 1>>, <<226, 5>>>>}

C4_Witness ==
    /\ ArrowCalled
    /\ call.start = <<0, 50>>
    /\ call.end = <<100, 50>>
    /\ call.head_size = 12
    /\ HeadOf(canvas)[2] = <<<<88, 1>>, <<274, 5>>>>

\* (v - start) x (end - start): its sign tells the side of the shaft line
\* v lies on, its magnitude is the distance from the line times |d|.
Cross(v, start, end) ==
    QSub(QMul(QSub(v[1], QInt(start[1])), QInt(end[2] - start[2])),
         QMul(QSub(v[2], QInt(start[2])), QInt(end[1] - start[1])))

DistSq(a, b) ==
    QAdd(QMul(QSub(a[1], b[1]), QSub(a[1], b[1])),
         QMul(QSub(a[2], b[2]), QSub(a[2], b[2])))

\* C5: the two non-tip vertices lie on opposite sides of the line through
\* start and end, each at perpendicular distance 0.4*head_size from it,
\* and at equal distance from the tip.
C5_ArrowheadIsosceles ==
    (ArrowCalled /\ ~Degenerate) =>
        LET head == HeadOf(canvas)
            len == Sqrt((call.end[1] - call.start[1]) * (call.end[1] - call.start[1])
                        + (call.end[2] - call.start[2]) * (call.end[2] - call.start[2]))
            cl == Cross(head[2], call.start, call.end)
            cr == Cross(head[3], call.start, call.end)
        IN  /\ QLess(QMul(cl, cr), QInt(0))
            /\ QAbs(cl) = QNorm(4 * call.head_size * len, 10)
            /\ QAbs(cr) = QNorm(4 * call.head_size * len, 10)
            /\ DistSq(head[2], head[1]) = DistSq(head[3], head[1])

C5_Witness ==
    /\ ArrowCalled
    /\ call.start = <<1, 1>>
    /\ call.end = <<4, 5>>
    /\ call.head_size = 14
    /\ HeadOf(canvas)[2] # HeadOf(canvas)[3]

(***************************************************************************)
(* Claims about the gradient rectangle (checked under SpecGradient).       *)
(***************************************************************************)
GradientCalled == call.fn = "draw_gradient_rect"

\* The scanline draw_gradient_rect issued for row y (y0 <= y < y1).
ScanlineOf(y) == Issued[y - call.bbox[2] + 1]

\* C10: for every gradient rectangle with y1 > y0 the first filled row
\* (y0) has exactly the top colour and the last filled row (y1 - 1) has
\* exactly the bottom colour.
C10_GradientBoundaryRowsExact ==
    (GradientCalled /\ call.bbox[4] > call.bbox[2]) =>
        /\ ScanlineOf(call.bbox[2]).fill = call.color_top
        /\ ScanlineOf(call.bbox[4] - 1).fill = call.color_bottom

\* C11: for a gradient rectangle of any height h >= 1 the colour of row y0
\* equals top and each channel of the colour of row y1 - 1 differs from
\* the bottom colour's channel by at most one unit.
C11_GradientLastRowWithinOneUnit ==
    (GradientCalled /\ call.bbox[4] - call.bbox[2] >= 1) =>
        /\ ScanlineOf(call.bbox[2]).fill = call.color_top
        /\ \A k \in 1..3 :
            Abs(ScanlineOf(call.bbox[4] - 1).fill[k] - call.color_bottom[k]) <= 1

\* C12: the corner radius draw_gradient_rect uses is at most half the
\* shorter side of the bbox, for the outline strokes and for the scanline
\* endpoints, so no scanline's left endpoint lies right of its right one.
C12_RadiusClampedToHalfShorterSide ==
    (GradientCalled /\ call.bbox[3] > call.bbox[1] /\ call.bbox[4] > call.bbox[2]) =>
        \A j \in 1..Len(Issued) :
            /\ Issued[j].op = "line" =>
                /\ Issued[j].xy[1][1] <= Issued[j].xy[2][1]
                /\ 2 * (Issued[j].xy[1][1] - call.bbox[1])
                        <= Min(call.bbox[3] - call.bbox[1], call.bbox[4] - call.bbox[2])
            /\ Issued[j].op = "rounded_rectangle" =>
                2 * Issued[j].radius
                    <= Min(call.bbox[3] - call.bbox[1], call.bbox[4] - call.bbox[2])

(***************************************************************************)
(* Claims about the font resolver (checked under SpecFont).                *)
(***************************************************************************)
FontCalled == call.fn = "get_font"

\* The calls the current get_font request made.
FontIssued == SubSeq(fontIO, Len(call.before) + 1, Len(fontIO))

\* C14: get_font(size, bold) returns the DejaVu face if its file exists,
\* otherwise the Liberation face if its file exists, otherwise the built-in
\* default font; only the files of the requested weight are touched, and a
\* later path is never used while an earlier one exists.
C14_FirstExistingFontPathWins ==
    FontCalled =>
        LET p == paths(call.bold) IN
        /\ ret.ok
        /\ ret.val = IF PathExists(fontFiles, p[1]) THEN TrueTypeFont(p[1], call.size)
                     ELSE IF PathExists(fontFiles, p[2]) THEN TrueTypeFont(p[2], call.size)
                     ELSE DefaultFont
        /\ \A j \in 1..Len(FontIssued) :
            FontIssued[j].fn # "load_default" =>
                /\ FontIssued[j].path \in {p[1], p[2]}
                /\ (FontIssued[j].path = p[2] => ~PathExists(fontFiles, p[1]))

\* C15: for every (size, bold) request and every state of the font files,
\* get_font returns a font handle and does not raise.
C15_FontResolutionNeverRaises ==
    FontCalled => ret.ok

\* C16: within one run each (size, bold) pair is resolved at most once: no
\* two font loads are made on behalf of the same (size, bold).
C16_FontResolvedOncePerKey ==
    \A i, j \in 1..Len(fontIO) :
        (/\ i < j
         /\ fontIO[i].fn \in {"truetype", "load_default"}
         /\ fontIO[j].fn \in {"truetype", "load_default"})
            => fontIO[i].by # fontIO[j].by

(***************************************************************************)
(* Claims about the shape and text primitives (checked under SpecShapes).  *)
(***************************************************************************)
\* The call supplies neither a fill nor an outline colour.
NoFillNoOutline ==
    \/ call.fn \in {"draw_pill", "draw_diamond"}
        /\ call.fill = "None"
        /\ call.outline = "None"
    \/ call.fn = "draw_icon_circle"
        /\ call.bg_type = "NoneType"

\* The draw call puts colour on the canvas.
Paints(d) == d.op = "text" \/ d.fill # "None" \/ d.outline # "None"

\* C13: a shape primitive (draw_pill, draw_diamond, draw_icon_circle) called
\* with neither a fill nor an outline colour raises no error and paints
\* nothing on the canvas.
C13_NoFillNoOutlineIsNoOp ==
    NoFillNoOutline =>
        /\ ret.ok
        /\ \A j \in 1..Len(Issued) : ~Paints(Issued[j])

TextCenterCalled == call.fn = "text_center"

\* C20: text_center draws the text with its origin at the anchor minus
\* (width div 2, height div 2) of the measured box, and the measured box of
\* the drawn text, which is the measured box moved to the draw origin, has
\* its centre within one pixel of the anchor on each axis.
C20_TextCentredOnAnchor ==
    TextCenterCalled =>
        LET bb == call.bb
            width == bb[3] - bb[1]
            height == bb[4] - bb[2]
            origin == Issued[1].xy
        IN  /\ Len(Issued) = 1
            /\ Issued[1].op = "text"
            /\ origin = <<call.cx - width \div 2, call.cy - height \div 2>>
            /\ Abs((origin[1] + bb[1]) + (origin[1] + bb[3]) - 2 * call.cx) <= 2
            /\ Abs((origin[2] + bb[2]) + (origin[2] + bb[4]) - 2 * call.cy) <= 2

(***************************************************************************)
(* Claims about wrap (checked under SpecWrap).                             *)
(***************************************************************************)
WrapCalled == call.fn = "wrap"

\* The words of the lines, in order: the lines re-joined with single spaces.
RECURSIVE Rejoined(_)
Rejoined(lines) ==
    IF lines = <<>> THEN <<>> ELSE Head(lines) \o Rejoined(Tail(lines))

\* C17: no line wrap returns measures more than max_width, except a line
\* that is a single word itself wider than max_width; every such word is
\* alone on its line, and every word of a line is a whole word of the text.
C17_WrappedLinesFitOrSingleWord ==
    WrapCalled =>
        \A j \in 1..Len(ret.val) :
            LET line == ret.val[j] IN
            /\ \/ measure(call.font, line) <= call.max_width
               \/ Len(line) = 1
            /\ \A k \in 1..Len(line) :
                /\ \E i \in 1..Len(call.text) : call.text[i] = line[k]
                /\ measure(call.font, <<line[k]>>) > call.max_width => Len(line) = 1

\* A call that returns a line of several words within max_width and a line
\* that is one word wider than max_width.
C17_Witness ==
    /\ WrapCalled
    /\ \E j \in 1..Len(ret.val) :
        Len(ret.val[j]) >= 2 /\ measure(call.font, ret.val[j]) <= call.max_width
    /\ \E j \in 1..Len(ret.val) :
        Len(ret.val[j]) = 1 /\ measure(call.font, ret.val[j]) > call.max_width

\* The end-to-end scenario: "NPD Detectors + Custom Plugins" wrapped at the
\* measured width of "NPD Detectors".
Scenario ==
    /\ WrapCalled
    /\ call.text = ScenarioText
    /\ call.max_width = measure(call.font, <<NPD, Detectors>>)

C25_ShaftThenHead ==
    (ArrowCalled /\ ~Degenerate) =>
        /\ Len(Issued) = 2
        /\ Issued[1] = LineOp(<<call.start, call.end>>, call.color, call.width)
        /\ Issued[2].op = "polygon"
        /\ Issued[2].fill = call.color

\* A non-degenerate arrow drawn over an earlier shape.
C25_Witness ==
    /\ ArrowCalled
    /\ ~Degenerate
    /\ call.before # <<>>
    /\ Issued[1].op = "line"
    /\ Issued[2].op = "polygon"

\* C28: every channel of every scanline colour of draw_gradient_rect lies
\* between the top and the bottom colour's channel inclusive, hence in
\* [0, 255], and from one row to the next it moves towards the bottom
\* colour or stays.
C28_GradientRowsBetweenEndpoints ==
    GradientCalled =>
        \A y \in call.bbox[2]..(call.bbox[4] - 1) : \A k \in 1..3 :
            LET top == call.color_top[k]
                bottom == call.color_bottom[k]
                v == ScanlineOf(y).fill[k]
            IN  /\ ScanlineOf(y).op = "line"
                /\ Min(top, bottom) <= v
                /\ v <= Max(top, bottom)
                /\ v \in 0..MaxChannel
                /\ y > call.bbox[2] =>
                    LET u == ScanlineOf(y - 1).fill[k]
                    IN  IF top <= bottom THEN u <= v ELSE u >= v

\* A gradient of several rows between different colours, with a row
\* strictly between the two.
C28_Witness ==
    /\ GradientCalled
    /\ call.bbox[4] - call.bbox[2] >= 3
    /\ \E y \in (call.bbox[2] + 1)..(call.bbox[4] - 1) :
        /\ call.color_top[1] < ScanlineOf(y).fill[1]
        /\ ScanlineOf(y).fill[1] < call.color_bottom[1]

\* C29: the last draw call of draw_gradient_rect is the outline stroke, after
\* every scanline; its colour is the outline colour passed, or
\* darken(color_top) with the default factor 0.7 when none is passed, and
\* the two outline strokes of the function have the same colour.
C29_OutlineLastInOneColour ==
    GradientCalled =>
        LET n == Len(Issued)
            expected == OutlineOr(call.outline, call.color_top, 70)
        IN  /\ n >= 2
            /\ \A j \in 1..n :
                Issued[j].op = "rounded_rectangle" <=> j \in {n - 1, n}
            /\ Issued[n].fill = "None"
            /\ Issued[n].outline = expected
            /\ Issued[n - 1].outline = Issued[n].outline

(***************************************************************************)
(* Further claims about the two scripts (checked under SpecPipeline).      *)
(***************************************************************************)
\* C23: a complete run of the diagram generator has written five PNG files,
\* one per diagram, all different and all in the diagrams directory.
C23_FiveDiagramsWritten ==
    gpc = "done" =>
        /\ Len(saved) = 5
        /\ Cardinality(Range(saved)) = 5
        /\ Range(saved) \subseteq fs

\* C27: when the assembler embeds figures after a complete generator run
\* into a directory holding only what that run wrote, no figure it adds is
\* the image-not-found placeholder; and every file a complete generator run
\* wrote is one the assembler embeds.
C27_GeneratedFilesAreTheEmbeddedFiles ==
    /\ [][(gpc = "done" /\ fs = Range(saved)) =>
            \A j \in (Len(doc) + 1)..Len(doc') :
                doc'[j].kind = "figure" => doc'[j].picture # "None"]_vars
    /\ [](gpc = "done" => Range(saved) \subseteq EmbeddedFiles)

(***************************************************************************)
(* Claims about the drop shadow (checked under SpecShadow).                *)
(***************************************************************************)
ShadowCalled == call.fn = "draw_shadow_rect"

\* C21: the shadow operation accepts an opacity, and a shadow of opacity 0
\* leaves the canvas as it was before the call.
C21_ZeroOpacityShadowIsInvisible ==
    (ShadowCalled /\ call.kwargs = << <<"opacity", 0>> >>) =>
        /\ ret.ok
        /\ \A j \in 1..Len(Issued) : Issued[j].op = "paste" => Issued[j].fill[4] = 0

(***************************************************************************)
(* Claims about the diagram compositions (checked under SpecCompose).      *)
(***************************************************************************)
\* Entry e of an image's log is the paste of a shadow layer.
IsShadow(e) == "op" \in DOMAIN e

\* Entry r is a filled rounded rectangle of the geometry shadow s was
\* derived from: the same radius, and the box of s moved back by its offset.
ShapeOfShadow(s, r) ==
    /\ ~IsShadow(r)
    /\ r.fn = "rounded_rectangle"
    /\ r.filled
    /\ r.radius = s.radius
    /\ s.xy[1] - r.xy[1] >= 0
    /\ \A k \in 1..4 : s.xy[k] - r.xy[k] = s.xy[1] - r.xy[1]

\* C26: on every diagram's canvas each shadow is followed at once by the
\* filled rounded rectangle of the same bbox and radius: the next draw call
\* after a shadow is its shape, a shadow that is the last thing drawn so far
\* has its shape as the generator's next call, and the shape has not been
\* drawn before its shadow.
C26_ShadowThenItsShape ==
    \A g \in DOMAIN task :
        LET img == task[g].img IN
        \A j \in 1..Len(img) :
            IsShadow(img[j]) =>
                IF j < Len(img)
                THEN /\ ShapeOfShadow(img[j], img[j + 1])
                     /\ \A i \in 1..(j - 1) :
                            (~IsShadow(img[i]) /\ img[i].fn = "rounded_rectangle")
                                => img[i].xy # img[j + 1].xy
                ELSE /\ task[g].pc <= Len(Composition(g))
                     /\ NextCall(g).fn = "rounded_rectangle"
                     /\ ShapeOfShadow(img[j], NextCall(g))

\* generate_workflow has returned, its image holding shadows each under
\* its shape.
C26_Witness ==
    /\ DOMAIN task # {}
    /\ task["generate_workflow"].pc > Len(Composition("generate_workflow"))
    /\ disk["03_workflow_diagram.png"].state = "written"
    /\ \E j \in 1..(Len(disk["03_workflow_diagram.png"].image) - 1) :
        LET img == disk["03_workflow_diagram.png"].image IN
        IsShadow(img[j]) /\ ShapeOfShadow(img[j], img[j + 1])

(***************************************************************************)
(* Claims about the order of the generators (checked under SpecAnyOrder).  *)
(***************************************************************************)
\* The output directory after the sequential run of the __main__ block from
\* generator i on, starting with directory d.
RECURSIVE SequentialRun(_, _)
SequentialRun(d, i) ==
    IF i > Len(GeneratorOrder) THEN d
    ELSE LET calls == Composition(GeneratorOrder[i])
             path == calls[Len(calls)].path
         IN  IF d[path].state = "unwritable" THEN d
             ELSE SequentialRun(
                    [d EXCEPT ![path] =
                        [state |-> "written", size |-> calls[1].size,
                         image |-> draw_calls(<<>>, calls[1].size, calls, 2)]],
                    i + 1)

\* The output directory the run started with.
DiskAtStart ==
    [f \in DOMAIN disk |->
        IF disk[f].state = "unwritable" THEN disk[f] ELSE [state |-> "absent"]]

\* Every generator has returned, or an exception has ended the run.
AnyOrderRunEnded ==
    \/ \A g \in DOMAIN task : task[g].pc > Len(Composition(g))
    \/ \E g \in DOMAIN task : task[g].raised

\* C24: the generators run in any order, or interleaved with one canvas
\* each, leave the same files with the same contents as the sequential run
\* of the __main__ block.
C24_AnyOrderSameFiles ==
    (DOMAIN task # {} /\ AnyOrderRunEnded) => disk = SequentialRun(DiskAtStart, 1)

=============================================================================
